---- MODULE Spec2Model ----
(***************************************************************************)
(* State-machine model of the Control Evidence Matching Engine of the      *)
(* backend: the risk classifier (sdk/risk_classifier.py), the finding      *)
(* synthesizer and the repository scanner (repo_scanner.py).               *)
(*                                                                         *)
(* Text is modelled as a sequence of one-character strings so that         *)
(* Python's `keyword in text` is real substring search and str.lower() is  *)
(* a real character map.                                                   *)
(***************************************************************************)
EXTENDS Integers, Sequences, FiniteSets, TLC

\* ---------------------------------------------------------------- bounds
\* Total number of vocabulary fragments in one metadata record.
MaxWords == 2

\* Largest number of evidence requirements of a control outside the
\* shipped catalogue.
MaxReqs == 6

\* Largest evidence list handed to _create_finding on its own.
MaxEvidence == 7

\* Largest number of files in a scanned tree.
MaxFiles == 3

\* Calls of scan() on one RepoScanner.
MaxScans == 2

\* Documents handed to one call of check_compliance.
MaxDocs == 1

\* Findings in a list handed to calculate_coverage.
MaxFindings == 3

\* Calls of calculate_coverage made on the findings.
MaxCoverageCalls == 2

\* Requests to get_repo_scan_result beside one scan_repository request.
MaxReads == 2

\* Findings of one severity in the output of an analysis tool.
MaxIssues == 2

VARIABLES
  metadata,        \* the dict handed to RiskClassifier.classify
  risk,            \* the dict classify returned (NoResult before the call)
  control,         \* the Control _create_finding looks up
  evidence_items,  \* the evidence list handed to _create_finding
  finding,         \* what _create_finding returned or raised
  repo,            \* the extracted file tree under RepoScanner.repo_path
  scan_id,         \* RepoScanner.scan_id
  evidence_list,   \* RepoScanner.evidence_list
  findings_list,   \* RepoScanner.findings_list
  calls,           \* calls of RepoScanner.scan made on the instance
  scan_raised,     \* a call of scan ended in an exception
  raw_metadata,    \* the metadata dict of a compliance check, as given
  documents,       \* the documents argument of check_compliance
  parsed_metadata, \* what parse_metadata made of the metadata
  compliance_result, \* the dict check_compliance returned
  findings,        \* the list handed to calculate_coverage
  coverage,        \* the CoverageStats of the calls made on it, in order
  upload,          \* the multipart request to scan_repository
  post_pc,         \* where scan_repository stands
  post_status,     \* the HTTP status scan_repository answered (0 before)
  scanner_runs,    \* runs of RepoScanner.scan made for the request
  scan_output,     \* evidence_list, findings_list and scan_dict of the handler
  db,              \* the collections evidence_scans, evidence and findings
  get_pc,          \* where get_repo_scan_result stands
  get_scan,        \* the scan document it read
  get_response,    \* its last response
  reads,           \* requests to get_repo_scan_result answered
  task,            \* the analyzer task Celery was handed
  worker_pc,       \* where the task stands
  analysis,        \* how the tool or library call of the task ended
  to_save,         \* the Evidence handed to save_evidence_sync
  in_handler,      \* the task is in an except clause
  stored           \* the Evidence records the task inserted

classifier_vars == <<metadata, risk>>

synthesizer_vars == <<control, evidence_items, finding>>

scanner_vars ==
  <<repo, scan_id, evidence_list, findings_list, calls, scan_raised>>

checker_vars ==
  <<raw_metadata, documents, parsed_metadata, compliance_result>>

coverage_vars == <<findings, coverage>>

engine_vars ==
  <<classifier_vars, synthesizer_vars, scanner_vars, checker_vars,
    coverage_vars>>

reader_vars == <<get_pc, get_scan, get_response, reads>>

server_vars ==
  <<upload, post_pc, post_status, scanner_runs, scan_output, db, reader_vars>>

worker_vars == <<task, worker_pc, analysis, to_save, in_handler, stored>>

vars == <<engine_vars, server_vars, worker_vars>>

\* ------------------------------------------------------- generic helpers
Range(s) == {s[i] : i \in DOMAIN s}

Min(a, b) == IF a <= b THEN a ELSE b

Max(a, b) == IF a >= b THEN a ELSE b

\* list(set(...)): every duplicate-free listing of S (Python's set order
\* is unspecified, so each order is a possible outcome).
Orderings(S) == {s \in [1..Cardinality(S) -> S] : Range(s) = S}

\* ------------------------------------------------------------ text model
UpperCase == <<"A","B","C","D","E","F","G","H","I","J","K","L","M",
               "N","O","P","Q","R","S","T","U","V","W","X","Y","Z">>

LowerCase == <<"a","b","c","d","e","f","g","h","i","j","k","l","m",
               "n","o","p","q","r","s","t","u","v","w","x","y","z">>

LowerOf ==
  [c \in Range(UpperCase) |->
     LowerCase[CHOOSE i \in DOMAIN UpperCase : UpperCase[i] = c]]

LowerChar(c) == IF c \in DOMAIN LowerOf THEN LowerOf[c] ELSE c

\* str.lower()
Lower(text) == [i \in DOMAIN text |-> LowerChar(text[i])]

\* `kw in text` on Python strings: kw occurs as a contiguous substring.
Contains(kw, text) ==
  \E i \in 1..(Len(text) - Len(kw) + 1) :
    \A j \in 1..Len(kw) : text[i + j - 1] = kw[j]

\* ', '.join(parts) is kept as the list of its parts.
Space == <<" ">>

\* ----------------------------------------------- Python float arithmetic
\* The scores are Python floats (IEEE 754 binary64): each operation yields
\* the exact result rounded to 53 significant bits, ties to even.  Values
\* here are non-negative and far from the overflow and subnormal ranges.
\* A significand needs more than the integers of the checker, so a natural
\* number is the list of its digits in base LimbBase, least significant
\* first, without a leading zero digit; zero is the empty list.
LimbBits == 13

LimbBase == 2 ^ LimbBits

\* Bits of a binary64 significand.
Precision == 53

RECURSIVE NatTrim(_)
NatTrim(a) ==
  IF a # <<>> /\ a[Len(a)] = 0 THEN NatTrim(SubSeq(a, 1, Len(a) - 1)) ELSE a

RECURSIVE NatOf(_)
NatOf(k) == IF k = 0 THEN <<>> ELSE <<k % LimbBase>> \o NatOf(k \div LimbBase)

RECURSIVE NatAddCarry(_, _, _)
NatAddCarry(a, b, c) ==
  IF a = <<>> /\ b = <<>> THEN NatOf(c)
  ELSE LET s == (IF a = <<>> THEN 0 ELSE Head(a))
                  + (IF b = <<>> THEN 0 ELSE Head(b)) + c
       IN  <<s % LimbBase>>
             \o NatAddCarry(IF a = <<>> THEN a ELSE Tail(a),
                            IF b = <<>> THEN b ELSE Tail(b), s \div LimbBase)

NatAdd(a, b) == NatAddCarry(a, b, 0)

RECURSIVE NatMulCarry(_, _, _)
NatMulCarry(a, k, c) ==
  IF a = <<>> THEN NatOf(c)
  ELSE LET s == Head(a) * k + c
       IN  <<s % LimbBase>> \o NatMulCarry(Tail(a), k, s \div LimbBase)

\* a * k for a small factor k
NatMul(a, k) == NatTrim(NatMulCarry(a, k, 0))

\* Quotient and remainder of a by a small divisor n.
RECURSIVE NatDivMod(_, _)
NatDivMod(a, n) ==
  IF a = <<>> THEN [q |-> <<>>, r |-> 0]
  ELSE LET hi == NatDivMod(Tail(a), n)
           cur == hi.r * LimbBase + Head(a)
       IN  [q |-> NatTrim(<<cur \div n>> \o hi.q), r |-> cur % n]

\* a * 2^s
NatShl(a, s) ==
  IF a = <<>> THEN a
  ELSE [i \in 1..(s \div LimbBits) |-> 0] \o NatMul(a, 2 ^ (s % LimbBits))

\* a \div 2^s, and whether a bit was shifted out.
NatShr(a, s) ==
  LET w == Min(s \div LimbBits, Len(a))
      dm == NatDivMod(SubSeq(a, w + 1, Len(a)), 2 ^ (s % LimbBits))
  IN  [q |-> dm.q, lost |-> dm.r # 0 \/ \E i \in 1..w : a[i] # 0]

NatBitLen(a) ==
  IF a = <<>> THEN 0
  ELSE LimbBits * (Len(a) - 1)
         + (CHOOSE k \in 1..LimbBits :
              2 ^ (k - 1) <= a[Len(a)] /\ a[Len(a)] < 2 ^ k)

NatOdd(a) == a # <<>> /\ a[1] % 2 = 1

\* a < b for numbers of any length
NatLess(a, b) ==
  \/ Len(a) < Len(b)
  \/ /\ Len(a) = Len(b)
     /\ \E i \in DOMAIN a :
          a[i] < b[i] /\ \A j \in (i + 1)..Len(a) : a[j] = b[j]

\* The nearest integer to (a + f) / 2^s, ties to even, where 0 <= f < 1
\* and f > 0 iff sticky.
NatRoundShr(a, sticky, s) ==
  IF s = 0 THEN a
  ELSE LET sh == NatShr(a, s - 1)
           hm == NatDivMod(sh.q, 2)
           up == hm.r = 1 /\ (sticky \/ sh.lost \/ NatOdd(hm.q))
       IN  IF up THEN NatAdd(hm.q, <<1>>) ELSE hm.q

\* A float is zero or m * 2^e with a significand m of exactly 53 bits.
FloatZero == [m |-> <<>>, e |-> 0]

\* The float nearest to (n + f) * 2^e, ties to even (f as above).
FloatRound(n, sticky, e) ==
  IF n = <<>> THEN FloatZero
  ELSE LET up == Max(0, Precision + 2 - NatBitLen(n))
           n2 == NatShl(n, up)
           d == NatBitLen(n2) - Precision
           m == NatRoundShr(n2, sticky, d)
       IN  IF NatBitLen(m) > Precision
             THEN [m |-> NatDivMod(m, 2).q, e |-> e - up + d + 1]
             ELSE [m |-> m, e |-> e - up + d]

\* float(k) for an int k >= 0
FloatOfInt(k) == FloatRound(NatOf(k), FALSE, 0)

\* x + y
FloatAdd(x, y) ==
  IF x = FloatZero THEN y
  ELSE IF y = FloatZero THEN x
  ELSE LET e == Min(x.e, y.e)
       IN  FloatRound(NatAdd(NatShl(x.m, x.e - e), NatShl(y.m, y.e - e)),
                      FALSE, e)

\* x * k for an int k >= 0
FloatMulInt(x, k) == FloatRound(NatMul(x.m, k), FALSE, x.e)

\* The float nearest to n * 2^e / d, d a small positive int.
FloatQuotient(n, e, d) ==
  LET dm == NatDivMod(NatShl(n, 2 * Precision), d)
  IN  FloatRound(dm.q, dm.r # 0, e - 2 * Precision)

\* x / d for an int d > 0
FloatDivInt(x, d) == FloatQuotient(x.m, x.e, d)

\* p / q for ints p >= 0, q > 0 (true division)
TrueDiv(p, q) == FloatQuotient(NatOf(p), 0, q)

\* x < y
FloatLess(x, y) ==
  IF y = FloatZero THEN FALSE
  ELSE IF x = FloatZero THEN TRUE
  ELSE x.e < y.e \/ (x.e = y.e /\ NatLess(x.m, y.m))

\* x >= y
FloatGeq(x, y) == ~FloatLess(x, y)

\* round(x, ndigits): the float nearest to the decimal with ndigits places
\* that is nearest to the exact value of x (ties to even).
PyRound(x, ndigits) ==
  IF x = FloatZero THEN x
  ELSE LET scaled == NatMul(x.m, 10 ^ ndigits)
           h == IF x.e >= 0 THEN NatShl(scaled, x.e)
                ELSE NatRoundShr(scaled, FALSE, -x.e)
       IN  FloatQuotient(h, 0, 10 ^ ndigits)

\* ------------------------------------------------- sdk/risk_classifier.py
PROHIBITED_KEYWORDS ==
  <<
     <<"s","u","b","l","i","m","i","n","a","l">>,  \* subliminal
     <<"m","a","n","i","p","u","l","a","t","i","o","n">>,  \* manipulation
     <<"e","x","p","l","o","i","t"," ","v","u","l","n","e","r","a","b","i","l","i","t","i","e","s">>,  \* exploit vulnerabilities
     <<"s","o","c","i","a","l"," ","s","c","o","r","i","n","g">>,  \* social scoring
     <<"r","e","a","l","-","t","i","m","e"," ","b","i","o","m","e","t","r","i","c"," ","i","d","e","n","t","i","f","i","c","a","t","i","o","n">>,  \* real-time biometric identification
     <<"l","a","w"," ","e","n","f","o","r","c","e","m","e","n","t">>,  \* law enforcement
     <<"p","u","b","l","i","c"," ","s","p","a","c","e","s">>,  \* public spaces
     <<"b","i","o","m","e","t","r","i","c"," ","c","a","t","e","g","o","r","i","z","a","t","i","o","n">>,  \* biometric categorization
     <<"s","e","n","s","i","t","i","v","e"," ","a","t","t","r","i","b","u","t","e","s">>,  \* sensitive attributes
     <<"e","m","o","t","i","o","n"," ","r","e","c","o","g","n","i","t","i","o","n">>,  \* emotion recognition
     <<"w","o","r","k","p","l","a","c","e">>,  \* workplace
     <<"e","d","u","c","a","t","i","o","n","a","l"," ","i","n","s","t","i","t","u","t","i","o","n">>  \* educational institution
  >>

HIGH_RISK_CATEGORIES ==
  <<
    [category |-> "biometric", keywords |-> <<
       <<"b","i","o","m","e","t","r","i","c"," ","i","d","e","n","t","i","f","i","c","a","t","i","o","n">>,  \* biometric identification
       <<"b","i","o","m","e","t","r","i","c"," ","v","e","r","i","f","i","c","a","t","i","o","n">>,  \* biometric verification
       <<"f","a","c","e"," ","r","e","c","o","g","n","i","t","i","o","n">>,  \* face recognition
       <<"f","i","n","g","e","r","p","r","i","n","t">>  \* fingerprint
    >>],
    [category |-> "critical_infrastructure", keywords |-> <<
       <<"t","r","a","f","f","i","c">>,  \* traffic
       <<"w","a","t","e","r">>,  \* water
       <<"g","a","s">>,  \* gas
       <<"e","l","e","c","t","r","i","c","i","t","y">>,  \* electricity
       <<"h","e","a","t","i","n","g">>  \* heating
    >>],
    [category |-> "education", keywords |-> <<
       <<"e","d","u","c","a","t","i","o","n">>,  \* education
       <<"v","o","c","a","t","i","o","n","a","l"," ","t","r","a","i","n","i","n","g">>,  \* vocational training
       <<"s","t","u","d","e","n","t"," ","a","s","s","e","s","s","m","e","n","t">>,  \* student assessment
       <<"e","x","a","m"," ","s","c","o","r","i","n","g">>  \* exam scoring
    >>],
    [category |-> "employment", keywords |-> <<
       <<"r","e","c","r","u","i","t","m","e","n","t">>,  \* recruitment
       <<"h","i","r","i","n","g">>,  \* hiring
       <<"w","o","r","k","e","r"," ","m","a","n","a","g","e","m","e","n","t">>,  \* worker management
       <<"e","m","p","l","o","y","m","e","n","t">>,  \* employment
       <<"t","a","s","k"," ","a","l","l","o","c","a","t","i","o","n">>  \* task allocation
    >>],
    [category |-> "essential_services", keywords |-> <<
       <<"c","r","e","d","i","t"," ","s","c","o","r","i","n","g">>,  \* credit scoring
       <<"c","r","e","d","i","t","w","o","r","t","h","i","n","e","s","s">>,  \* creditworthiness
       <<"i","n","s","u","r","a","n","c","e">>,  \* insurance
       <<"r","i","s","k"," ","a","s","s","e","s","s","m","e","n","t">>  \* risk assessment
    >>],
    [category |-> "law_enforcement", keywords |-> <<
       <<"l","a","w"," ","e","n","f","o","r","c","e","m","e","n","t">>,  \* law enforcement
       <<"c","r","i","m","e"," ","a","n","a","l","y","t","i","c","s">>,  \* crime analytics
       <<"p","o","l","y","g","r","a","p","h">>,  \* polygraph
       <<"e","v","i","d","e","n","c","e"," ","e","v","a","l","u","a","t","i","o","n">>  \* evidence evaluation
    >>],
    [category |-> "migration", keywords |-> <<
       <<"i","m","m","i","g","r","a","t","i","o","n">>,  \* immigration
       <<"a","s","y","l","u","m">>,  \* asylum
       <<"b","o","r","d","e","r"," ","c","o","n","t","r","o","l">>,  \* border control
       <<"v","i","s","a">>  \* visa
    >>],
    [category |-> "justice", keywords |-> <<
       <<"j","u","d","i","c","i","a","l">>,  \* judicial
       <<"l","e","g","a","l">>,  \* legal
       <<"c","o","u","r","t">>,  \* court
       <<"d","i","s","p","u","t","e"," ","r","e","s","o","l","u","t","i","o","n">>  \* dispute resolution
    >>]
  >>

limited_risk_keywords ==
  <<
     <<"c","h","a","t","b","o","t">>,  \* chatbot
     <<"d","e","e","p","f","a","k","e">>,  \* deepfake
     <<"e","m","o","t","i","o","n"," ","r","e","c","o","g","n","i","t","i","o","n">>,  \* emotion recognition
     <<"b","i","o","m","e","t","r","i","c"," ","c","a","t","e","g","o","r","i","z","a","t","i","o","n">>  \* biometric categorization
  >>
NoResult == [risk_level |-> "none"]

\* metadata.get(key, '')
Get(m, key) == IF key \in DOMAIN m THEN m[key] ELSE <<>>

\* line 41: f"{system_description} {use_case} {application_domain}"
combined_text(m) ==
  Lower(Get(m, "description")) \o Space \o Lower(Get(m, "use_case"))
    \o Space \o Lower(Get(m, "application_domain"))

\* A plausible slip: break after the first hit.
prohibited_found_first_only(text) ==
  LET all == SelectSeq(PROHIBITED_KEYWORDS, LAMBDA kw : Contains(kw, text))
  IN  IF all = <<>> THEN <<>> ELSE <<all[1]>>

\* lines 44-47
prohibited_found(text) ==
  SelectSeq(PROHIBITED_KEYWORDS, LAMBDA kw : Contains(kw, text))

\* The (category, keyword) pairs in the iteration order of lines 59-60.
RECURSIVE CategoryPairs(_)
CategoryPairs(cats) ==
  IF cats = <<>> THEN <<>>
  ELSE [i \in DOMAIN Head(cats).keywords |->
          <<Head(cats).category, Head(cats).keywords[i]>>]
       \o CategoryPairs(Tail(cats))

\* lines 58-62
high_risk_matches(text) ==
  SelectSeq(CategoryPairs(HIGH_RISK_CATEGORIES),
            LAMBDA match : Contains(match[2], text))

\* A plausible slip: the list comprehension without set().
categories_no_set(matches) ==
  {[i \in DOMAIN matches |-> matches[i][1]]}

\* line 65: list(set([match[0] for match in high_risk_matches])), every
\* order the set may be listed in.
categories(matches) ==
  Orderings({matches[i][1] : i \in DOMAIN matches})

\* A plausible slip: the containment test the wrong way round.
limited_risk_found_reversed(text) ==
  SelectSeq(limited_risk_keywords, LAMBDA kw : Contains(text, kw))

\* line 76
limited_risk_found(text) ==
  SelectSeq(limited_risk_keywords, LAMBDA kw : Contains(kw, text))

\* lines 50-55
prohibited_result(pf) ==
  [risk_level |-> "prohibited",
   reasoning |-> [text |-> "System matches prohibited AI practices (Article 5): ",
                  joined |-> pf],
   article_reference |-> "Article 5",
   matched_terms |-> pf]

\* lines 66-72
high_result(hm, cats) ==
  [risk_level |-> "high",
   reasoning |-> [text |-> "System falls under high-risk categories: ",
                  joined |-> cats],
   article_reference |-> "Article 6 & Annex III",
   matched_categories |-> cats,
   matched_terms |-> [i \in DOMAIN hm |-> hm[i][2]]]

\* lines 79-84
limited_result(lf) ==
  [risk_level |-> "limited",
   reasoning |-> [text |-> "System requires transparency obligations: ",
                  joined |-> lf],
   article_reference |-> "Article 52",
   matched_terms |-> lf]

\* lines 87-92
minimal_result ==
  [risk_level |-> "minimal",
   reasoning |-> [text |-> "System does not fall into prohibited, high-risk, or limited-risk categories",
                  joined |-> <<>>],
   article_reference |-> "N/A",
   matched_terms |-> <<>>]

\* A plausible slip: the high-risk tier tested before the prohibited one.
classify_high_first(m, cats) ==
  LET text == combined_text(m)
  IN  IF high_risk_matches(text) # <<>>
        THEN high_result(high_risk_matches(text), cats)
      ELSE IF prohibited_found(text) # <<>>
        THEN prohibited_result(prohibited_found(text))
      ELSE IF limited_risk_found(text) # <<>>
        THEN limited_result(limited_risk_found(text))
      ELSE minimal_result

\* A plausible slip: the `if limited_risk_found:` guard left out.
classify_unguarded_limited(m, cats) ==
  LET text == combined_text(m)
  IN  IF prohibited_found(text) # <<>>
        THEN prohibited_result(prohibited_found(text))
      ELSE IF high_risk_matches(text) # <<>>
        THEN high_result(high_risk_matches(text), cats)
      ELSE limited_result(limited_risk_found(text))

\* A plausible slip: the transparency keywords are looked for first.
classify_limited_first(m, cats) ==
  LET text == combined_text(m)
  IN  IF limited_risk_found(text) # <<>>
        THEN limited_result(limited_risk_found(text))
      ELSE IF prohibited_found(text) # <<>>
        THEN prohibited_result(prohibited_found(text))
      ELSE IF high_risk_matches(text) # <<>>
        THEN high_result(high_risk_matches(text), cats)
      ELSE minimal_result

\* RiskClassifier.classify, lines 28-92.  cats is the order in which
\* list(set(...)) happened to list the matched categories.
classify(m, cats) ==
  LET text == combined_text(m)
  IN  IF prohibited_found(text) # <<>>
        THEN prohibited_result(prohibited_found(text))
      ELSE IF high_risk_matches(text) # <<>>
        THEN high_result(high_risk_matches(text), cats)
      ELSE IF limited_risk_found(text) # <<>>
        THEN limited_result(limited_risk_found(text))
      ELSE minimal_result

\* ------------------------------------------------ controls_definitions.py
\* The catalogue, in the order of ALL_CONTROLS (lines 771-780); of each
\* Control the fields the scanner reads.
ALL_CONTROLS ==
  <<
    [id |-> "CTRL-009-001", article |-> "Article 9", title |-> "Risk Identification Procedure",
     evidence_requirements |-> <<"docs/risk*.{pdf,md}", "RISK_MANAGEMENT*.md", "risk_identification*.{pdf,md}">>,
     priority |-> "high"],
    [id |-> "CTRL-009-002", article |-> "Article 9", title |-> "Risk Assessment Methodology",
     evidence_requirements |-> <<"docs/risk_assessment*.{pdf,md}", "risk_matrix*.{pdf,png}">>,
     priority |-> "high"],
    [id |-> "CTRL-009-003", article |-> "Article 9", title |-> "Risk Mitigation Implementation",
     evidence_requirements |-> <<"tests/test_*safety*.py", "tests/test_*risk*.py", "src/*safety*.py", "src/*mitigation*.py">>,
     priority |-> "critical"],
    [id |-> "CTRL-009-004", article |-> "Article 9", title |-> "Continuous Monitoring Setup",
     evidence_requirements |-> <<"monitoring/*.{yml,yaml,json}", "prometheus/*.yml", "grafana/*.json", ".github/workflows/*monitor*.yml">>,
     priority |-> "high"],
    [id |-> "CTRL-009-005", article |-> "Article 9", title |-> "Testing Procedures",
     evidence_requirements |-> <<"tests/", "pytest.ini", ".github/workflows/*test*.yml", "test_*.py">>,
     priority |-> "high"],
    [id |-> "CTRL-010-001", article |-> "Article 10", title |-> "Training Data Documentation",
     evidence_requirements |-> <<"data/README.md", "DATA*.md", "dataset*.{pdf,md}", "data_card.md">>,
     priority |-> "high"],
    [id |-> "CTRL-010-002", article |-> "Article 10", title |-> "Data Quality Checks",
     evidence_requirements |-> <<"src/*data*valid*.py", "src/*data*quality*.py", "tests/test_data*.py">>,
     priority |-> "high"],
    [id |-> "CTRL-010-003", article |-> "Article 10", title |-> "Bias Detection Implementation",
     evidence_requirements |-> <<"src/*bias*.py", "src/*fairness*.py", "tests/test_*bias*.py", "notebooks/*fairness*.ipynb">>,
     priority |-> "critical"],
    [id |-> "CTRL-010-004", article |-> "Article 10", title |-> "Data Governance Policy",
     evidence_requirements |-> <<"DATA_GOVERNANCE*.{pdf,md}", "policies/data*.{pdf,md}">>,
     priority |-> "medium"],
    [id |-> "CTRL-010-005", article |-> "Article 10", title |-> "Data Lineage Tracking",
     evidence_requirements |-> <<"dvc.yaml", "dvc.lock", "data.yaml", ".dvc/", "mlflow*">>,
     priority |-> "medium"],
    [id |-> "CTRL-011-001", article |-> "Article 11", title |-> "System Design Documentation",
     evidence_requirements |-> <<"README.md", "docs/*.md", "ARCHITECTURE.md", "DESIGN.md">>,
     priority |-> "high"],
    [id |-> "CTRL-011-002", article |-> "Article 11", title |-> "Architecture Diagrams",
     evidence_requirements |-> <<"docs/*.{png,svg,jpg}", "architecture/*.{png,svg}", "diagrams/*">>,
     priority |-> "medium"],
    [id |-> "CTRL-011-003", article |-> "Article 11", title |-> "API Documentation",
     evidence_requirements |-> <<"openapi.{yaml,json}", "swagger.{yaml,json}", "src/**/*.py:def.*#.*@app", "docs/api.md">>,
     priority |-> "high"],
    [id |-> "CTRL-011-004", article |-> "Article 11", title |-> "Model Card",
     evidence_requirements |-> <<"MODEL_CARD.md", "model_card.json", "README.md:#Model">>,
     priority |-> "high"],
    [id |-> "CTRL-011-005", article |-> "Article 11", title |-> "Development Process Documentation",
     evidence_requirements |-> <<"CHANGELOG.md", "CONTRIBUTING.md", ".git/", "VERSION">>,
     priority |-> "medium"],
    [id |-> "CTRL-012-001", article |-> "Article 12", title |-> "Automatic Logging Configuration",
     evidence_requirements |-> <<"logging.conf", "*.env:LOG_LEVEL", "config/*logging*.{py,yaml,json}">>,
     priority |-> "high"],
    [id |-> "CTRL-012-002", article |-> "Article 12", title |-> "Audit Trail Implementation",
     evidence_requirements |-> <<"src/*audit*.py", "src/*log*.py", "models/*audit*.py">>,
     priority |-> "critical"],
    [id |-> "CTRL-012-003", article |-> "Article 12", title |-> "Event Recording System",
     evidence_requirements |-> <<"src/*event*.py", "src/*tracking*.py", "tests/test_*logging*.py">>,
     priority |-> "high"],
    [id |-> "CTRL-012-004", article |-> "Article 12", title |-> "Log Retention Policy",
     evidence_requirements |-> <<"docker-compose.yml:logging", "LOG_RETENTION*.md", "policies/logging*.{pdf,md}">>,
     priority |-> "medium"],
    [id |-> "CTRL-012-005", article |-> "Article 12", title |-> "Traceability Mechanism",
     evidence_requirements |-> <<"src/*trace*.py", "src/*decision*.py", "tests/test_*trace*.py">>,
     priority |-> "high"],
    [id |-> "CTRL-013-001", article |-> "Article 13", title |-> "User Instructions",
     evidence_requirements |-> <<"USER_GUIDE.md", "INSTRUCTIONS.md", "docs/user*.md", "README.md:#Usage">>,
     priority |-> "high"],
    [id |-> "CTRL-013-002", article |-> "Article 13", title |-> "Limitations Documentation",
     evidence_requirements |-> <<"LIMITATIONS.md", "README.md:#Limitations", "docs/*limit*.md">>,
     priority |-> "critical"],
    [id |-> "CTRL-013-003", article |-> "Article 13", title |-> "Performance Metrics Disclosure",
     evidence_requirements |-> <<"benchmarks/*.json", "PERFORMANCE.md", "metrics/*.{json,csv}", "README.md:#Performance">>,
     priority |-> "high"],
    [id |-> "CTRL-013-004", article |-> "Article 13", title |-> "Human Oversight Information",
     evidence_requirements |-> <<"docs/*oversight*.md", "README.md:#Oversight", "HUMAN_OVERSIGHT.md">>,
     priority |-> "high"],
    [id |-> "CTRL-013-005", article |-> "Article 13", title |-> "Explainability Features",
     evidence_requirements |-> <<"src/*explain*.py", "src/*interpret*.py", "src/*shap*.py", "src/*lime*.py">>,
     priority |-> "high"],
    [id |-> "CTRL-014-001", article |-> "Article 14", title |-> "Human Review Workflow",
     evidence_requirements |-> <<"src/*review*.py", "src/*approval*.py", "src/*workflow*.py", "docs/WORKFLOW.md">>,
     priority |-> "critical"],
    [id |-> "CTRL-014-002", article |-> "Article 14", title |-> "Override Mechanisms",
     evidence_requirements |-> <<"src/*override*.py", "src/*manual*.py", "tests/test_*override*.py">>,
     priority |-> "critical"],
    [id |-> "CTRL-014-003", article |-> "Article 14", title |-> "Stop Functionality",
     evidence_requirements |-> <<"src/*stop*.py", "src/*emergency*.py", "tests/test_*stop*.py">>,
     priority |-> "critical"],
    [id |-> "CTRL-014-004", article |-> "Article 14", title |-> "Monitoring Interface",
     evidence_requirements |-> <<"dashboard/", "src/dashboard*.py", "frontend/*dashboard*", "monitoring/">>,
     priority |-> "high"],
    [id |-> "CTRL-014-005", article |-> "Article 14", title |-> "Alert System",
     evidence_requirements |-> <<"alerts/*.{yaml,json}", "src/*alert*.py", "prometheus/*alert*.yml">>,
     priority |-> "high"],
    [id |-> "CTRL-015-001", article |-> "Article 15", title |-> "Accuracy Metrics Tracking",
     evidence_requirements |-> <<"tests/test_*accuracy*.py", "tests/test_*metric*.py", "metrics/*.json", "benchmarks/">>,
     priority |-> "high"],
    [id |-> "CTRL-015-002", article |-> "Article 15", title |-> "Robustness Tests",
     evidence_requirements |-> <<"tests/test_*robust*.py", "tests/test_*adversarial*.py", "tests/test_*edge*.py">>,
     priority |-> "high"],
    [id |-> "CTRL-015-003", article |-> "Article 15", title |-> "Security Scanning",
     evidence_requirements |-> <<".github/workflows/*security*.yml", ".github/workflows/*scan*.yml", "Snyk*", "bandit.yml">>,
     priority |-> "critical"],
    [id |-> "CTRL-015-004", article |-> "Article 15", title |-> "Dependency Vulnerability Checks",
     evidence_requirements |-> <<"requirements.txt", ".github/workflows/*audit*.yml", "renovate.json", "dependabot.yml">>,
     priority |-> "critical"],
    [id |-> "CTRL-015-005", article |-> "Article 15", title |-> "Error Handling",
     evidence_requirements |-> <<"src/*error*.py", "src/*exception*.py", "tests/test_*error*.py">>,
     priority |-> "high"],
    [id |-> "CTRL-015-006", article |-> "Article 15", title |-> "Input Validation",
     evidence_requirements |-> <<"src/*valid*.py", "src/*sanitize*.py", "tests/test_*valid*.py">>,
     priority |-> "critical"],
    [id |-> "CTRL-ANX4-001", article |-> "Annex IV", title |-> "System Description",
     evidence_requirements |-> <<"README.md", "SYSTEM.md", "docs/OVERVIEW.md">>,
     priority |-> "high"],
    [id |-> "CTRL-ANX4-002", article |-> "Annex IV", title |-> "Intended Purpose",
     evidence_requirements |-> <<"README.md:#Purpose", "INTENDED_USE.md">>,
     priority |-> "high"],
    [id |-> "CTRL-ANX4-003", article |-> "Annex IV", title |-> "Hardware Requirements",
     evidence_requirements |-> <<"requirements.txt", "Dockerfile", "docker-compose.yml", "README.md:#Requirements">>,
     priority |-> "medium"],
    [id |-> "CTRL-ANX4-004", article |-> "Annex IV", title |-> "Input/Output Specifications",
     evidence_requirements |-> <<"schema.json", "openapi.{yaml,json}", "src/models/*.py", "src/schemas/*.py">>,
     priority |-> "high"],
    [id |-> "CTRL-ANX4-005", article |-> "Annex IV", title |-> "Version Information",
     evidence_requirements |-> <<"VERSION", "CHANGELOG.md", ".git/refs/tags/", "pyproject.toml:version">>,
     priority |-> "medium"]
  >>

\* get_control_by_id, lines 793-798
NoControl == [id |-> "None"]

RECURSIVE FirstWithId(_, _)
FirstWithId(controls, control_id) ==
  IF controls = <<>> THEN NoControl
  ELSE IF Head(controls).id = control_id THEN Head(controls)
  ELSE FirstWithId(Tail(controls), control_id)

\* A plausible slip: the lookup searching only the Article 11-15 controls
\* of the catalogue, so that the Annex IV controls do not resolve.
get_control_by_id_articles_only(control_id) ==
  FirstWithId(SelectSeq(ALL_CONTROLS,
                        LAMBDA c : c.article \in {"Article 11", "Article 12", "Article 15"}),
              control_id)

get_control_by_id(control_id) == FirstWithId(ALL_CONTROLS, control_id)

\* ------------------------------------------- repo_scanner.py: the finding
\* A Python float that is the quotient of two small integers.
Ratio(n, d) == [num |-> n, den |-> d]

RatLeq(a, b) == a.num * b.den <= b.num * a.den

RatEq(a, b) == a.num * b.den = b.num * a.den

RatMin(a, b) == IF RatLeq(a, b) THEN a ELSE b

NoFinding == [raised |-> "nothing yet"]

ZeroDivisionError == [raised |-> "ZeroDivisionError"]

\* evidence_models.py: Evidence.  The uuid4 id is a token unique to the
\* item; collected_at is left out.
Evidence(id, sid, control_id, type, path, preview, confidence, meta) ==
  [id |-> id, scan_id |-> sid, control_id |-> control_id, type |-> type,
   source |-> [type |-> "file", path |-> path],
   content_preview |-> preview, metadata |-> meta, status |-> "valid",
   confidence_score |-> confidence]

\* A plausible slip: the recommendation joins every requirement.
no_evidence_gap_all(c) ==
  [description |-> [text |-> "No evidence found for ", title |-> c.title],
   severity |-> c.priority,
   recommendation |-> [text |-> "Add ", joined |-> c.evidence_requirements],
   required_evidence |-> c.evidence_requirements]

\* lines 440-445; ', '.join(control.evidence_requirements[:3])
no_evidence_gap(c) ==
  [description |-> [text |-> "No evidence found for ", title |-> c.title],
   severity |-> c.priority,
   recommendation |->
     [text |-> "Add ",
      joined |-> SubSeq(c.evidence_requirements, 1,
                        Min(3, Len(c.evidence_requirements)))],
   required_evidence |-> c.evidence_requirements]

\* A plausible slip: the [:3] of the first branch copied here.
partial_gap_first_three(c) ==
  [description |-> [text |-> "Incomplete evidence for ", title |-> c.title],
   severity |-> "medium",
   recommendation |->
     [text |-> "Add more documentation: ",
      joined |-> SubSeq(c.evidence_requirements, 1,
                        Min(3, Len(c.evidence_requirements)))],
   required_evidence |-> SubSeq(c.evidence_requirements, 1,
                                Min(3, Len(c.evidence_requirements)))]

\* lines 455-460
partial_gap(c) ==
  [description |-> [text |-> "Incomplete evidence for ", title |-> c.title],
   severity |-> "medium",
   recommendation |-> [text |-> "Add more documentation: ",
                       joined |-> c.evidence_requirements],
   required_evidence |-> c.evidence_requirements]

\* lines 462-475
Finding(sid, c, status, confidence, items, gaps) ==
  [scan_id |-> sid,
   control_id |-> c.id,
   control_title |-> c.title,
   article |-> c.article,
   status |-> status,
   confidence |-> confidence,
   auto_verified |-> TRUE,
   evidence_ids |-> [i \in DOMAIN items |-> items[i].id],
   evidence_count |-> Len(items),
   gaps |-> gaps,
   recommendation |-> IF gaps # <<>> THEN gaps[1].recommendation
                      ELSE [text |-> "Control satisfied", joined |-> <<>>],
   severity |-> c.priority]

\* A plausible slip: the threshold is strict, len(items) > len(reqs) * 0.5.
synthesize_strict(sid, c, items) ==
  LET n == Len(items)
      r == Len(c.evidence_requirements)
  IN  IF n = 0 THEN
        Finding(sid, c, "non_compliant", Ratio(0, 1), items,
                <<no_evidence_gap(c)>>)
      ELSE IF 2 * n > r THEN
        IF r = 0 THEN ZeroDivisionError
        ELSE Finding(sid, c, "compliant",
                     RatMin(Ratio(1, 1), Ratio(n, r)), items, <<>>)
      ELSE
        Finding(sid, c, "partial", Ratio(n, Max(1, r)), items,
                <<partial_gap(c)>>)

\* A plausible slip: the branch for an empty evidence list is missing, and
\* the list falls through to the partial case.
synthesize_no_empty_case(sid, c, items) ==
  LET n == Len(items)
      r == Len(c.evidence_requirements)
  IN  IF n > 0 /\ 2 * n >= r THEN
        IF r = 0 THEN ZeroDivisionError
        ELSE Finding(sid, c, "compliant",
                     RatMin(Ratio(1, 1), Ratio(n, r)), items, <<>>)
      ELSE
        Finding(sid, c, "partial", Ratio(n, Max(1, r)), items,
                <<partial_gap(c)>>)

\* RepoScanner._create_finding, lines 436-475, for the control c that
\* get_control_by_id found.  len(items) >= len(reqs) * 0.5 is 2n >= r.
synthesize(sid, c, items) ==
  LET n == Len(items)
      r == Len(c.evidence_requirements)
  IN  IF n = 0 THEN
        Finding(sid, c, "non_compliant", Ratio(0, 1), items,
                <<no_evidence_gap(c)>>)
      ELSE IF 2 * n >= r THEN
        IF r = 0 THEN ZeroDivisionError
        ELSE Finding(sid, c, "compliant",
                     RatMin(Ratio(1, 1), Ratio(n, r)), items, <<>>)
      ELSE
        Finding(sid, c, "partial", Ratio(n, Max(1, r)), items,
                <<partial_gap(c)>>)

\* RepoScanner._create_finding, lines 432-475
_create_finding(sid, control_id, items) ==
  synthesize(sid, get_control_by_id(control_id), items)

\* ------------------------------------------- repo_scanner.py: the scanner
\* lines 21-32
FIRST_WAVE_CONTROLS ==
  <<"CTRL-011-001", "CTRL-011-002", "CTRL-011-005", "CTRL-012-001",
    "CTRL-012-002", "CTRL-015-003", "CTRL-015-004", "CTRL-ANX4-001",
    "CTRL-ANX4-003", "CTRL-ANX4-005">>

\* A file of the extracted tree: the directories above it (from the root),
\* its name and its text.  Directories exist where a file lies below them.
File(dir, name, content) == [dir |-> dir, name |-> name, content |-> content]

\* str(file.relative_to(self.repo_path)), kept as its components.
RelPath(f) == Append(f.dir, f.name)

PyNone == <<"None">>

StartsWith(s, prefix) ==
  /\ Len(prefix) <= Len(s)
  /\ \A i \in 1..Len(prefix) : s[i] = prefix[i]

EndsWith(s, suffix) ==
  /\ Len(suffix) <= Len(s)
  /\ \A i \in 1..Len(suffix) : s[Len(s) - Len(suffix) + i] = suffix[i]

\* any(keyword in text for keyword in keywords)
ContainsAny(keywords, text) ==
  \E i \in DOMAIN keywords : Contains(keywords[i], text)

RECURSIVE Concat(_)
Concat(lists) ==
  IF lists = <<>> THEN <<>> ELSE Head(lists) \o Concat(Tail(lists))

\* evidence[:k]
Take(list, k) == SubSeq(list, 1, Min(k, Len(list)))

\* f lies in the directory dir or below it.
Under(dir, f) == StartsWith(f.dir, dir)

\* The directories of a tree: every prefix of a file's dir.
DirsOf(files) ==
  UNION {{SubSeq(f.dir, 1, k) : k \in 0..Len(f.dir)} : f \in files}

\* The orders in which a walk of the tree (glob in one directory, rglob
\* from the root) can meet its files: the entries of one directory come in
\* any order, the files of a directory before those of its subdirectories,
\* and one subdirectory is finished before the next is entered.
DirectoryOrders(files) ==
  {l \in Orderings(files) :
     \A dir \in DirsOf(files) :
       /\ \A i, j \in DOMAIN l :
            (i < j /\ l[j].dir = dir) => ~(Under(dir, l[i]) /\ l[i].dir # dir)
       /\ \A i, j, k \in DOMAIN l :
            (i < j /\ j < k /\ Under(dir, l[i]) /\ Under(dir, l[k]))
              => Under(dir, l[j])}

\* path.exists() for a directory path
DirExists(listing, dir) ==
  \E i \in DOMAIN listing : StartsWith(listing[i].dir, dir)

\* dir.glob(name) and (dir / name).exists() for a literal file name: the
\* entries of dir with that name, in listing order.
Named(listing, dir, name) ==
  SelectSeq(listing, LAMBDA f : f.dir = dir /\ f.name = name)

\* dir.glob("*" + suffix): the entries of dir, in listing order.
GlobSuffix(listing, dir, suffix) ==
  SelectSeq(listing, LAMBDA f : f.dir = dir /\ EndsWith(f.name, suffix))

\* repo_path.rglob(name): the files of that name at any depth.
RGlobNamed(listing, name) ==
  SelectSeq(listing, LAMBDA f : f.name = name)

\* repo_path.rglob("*" + suffix): at any depth.
RGlobSuffix(listing, suffix) ==
  SelectSeq(listing, LAMBDA f : EndsWith(f.name, suffix))

\* _file_contains_pattern, lines 416-422
_file_contains_pattern(f, patterns) ==
  \E i \in DOMAIN patterns : Contains(Lower(patterns[i]), Lower(f.content))

\* _read_file_preview, lines 424-430
_read_file_preview(f, max_chars) == Take(f.content, max_chars)

\* An Evidence before its id is drawn.
Item(control_id, type, path, preview, confidence, meta) ==
  [control_id |-> control_id, type |-> type, path |-> path,
   preview |-> preview, confidence |-> confidence, meta |-> meta]

\* A plausible slip: the bare name is a prefix glob, "README*", which also
\* matches the names of the three patterns before it.
_scan_readme_prefix(listing) ==
  LET patterns == <<<<"R","E","A","D","M","E",".","m","d">>, <<"R","E","A","D","M","E",".","r","s","t">>, <<"R","E","A","D","M","E",".","t","x","t">>, <<"R","E","A","D","M","E">>>>
      hit(p) == Take(SelectSeq(listing,
                       LAMBDA f : f.dir = <<>> /\ (f.name = p \/ (p = <<"R","E","A","D","M","E">> /\ StartsWith(f.name, p)))), 1)
  IN  Concat([k \in DOMAIN patterns |->
        [i \in DOMAIN hit(patterns[k]) |->
           Item("CTRL-011-001", "documentation", RelPath(hit(patterns[k])[i]),
                _read_file_preview(hit(patterns[k])[i], 500), Ratio(10, 10),
                {<<"file_size", Len(hit(patterns[k])[i].content)>>})]])

\* lines 86-109
_scan_readme(listing) ==
  LET patterns == <<<<"R","E","A","D","M","E",".","m","d">>, <<"R","E","A","D","M","E",".","r","s","t">>, <<"R","E","A","D","M","E",".","t","x","t">>, <<"R","E","A","D","M","E">>>>
      hit(p) == Take(Named(listing, <<>>, p), 1)
  IN  Concat([k \in DOMAIN patterns |->
        [i \in DOMAIN hit(patterns[k]) |->
           Item("CTRL-011-001", "documentation", RelPath(hit(patterns[k])[i]),
                _read_file_preview(hit(patterns[k])[i], 500), Ratio(10, 10),
                {<<"file_size", Len(hit(patterns[k])[i].content)>>})]])

\* A plausible slip: the list of diagrams is returned whole.
_scan_diagrams_uncapped(listing) ==
  LET all == SelectSeq(listing, LAMBDA f :
               /\ f.dir \in {<<>>, <<<<"d","o","c","s">>>>, <<<<"a","r","c","h","i","t","e","c","t","u","r","e">>>>, <<<<"d","i","a","g","r","a","m","s">>>>}
               /\ \E x \in {<<".","p","n","g">>, <<".","s","v","g">>, <<".","j","p","g">>, <<".","j","p","e","g">>} : EndsWith(f.name, x)
               /\ ContainsAny(<<<<"a","r","c","h","i","t","e","c","t","u","r","e">>, <<"d","i","a","g","r","a","m">>, <<"f","l","o","w">>, <<"s","y","s","t","e","m">>, <<"d","e","s","i","g","n">>>>, Lower(f.name)))
  IN  [i \in DOMAIN all |->
         Item("CTRL-011-002", "documentation", RelPath(all[i]), PyNone,
              Ratio(8, 10), {<<"file_size", Len(all[i].content)>>})]

\* lines 111-139
_scan_diagrams(listing) ==
  LET diagram_patterns == <<<<".","p","n","g">>, <<".","s","v","g">>, <<".","j","p","g">>, <<".","j","p","e","g">>>>
      diagram_dirs == << <<<<"d","o","c","s">>>>, <<<<"a","r","c","h","i","t","e","c","t","u","r","e">>>>, <<<<"d","i","a","g","r","a","m","s">>>>, <<>> >>
      keywords == <<<<"a","r","c","h","i","t","e","c","t","u","r","e">>, <<"d","i","a","g","r","a","m">>, <<"f","l","o","w">>, <<"s","y","s","t","e","m">>, <<"d","e","s","i","g","n">>>>
      found(d, p) ==
        IF d = <<>> \/ DirExists(listing, d)
        THEN SelectSeq(GlobSuffix(listing, d, p),
                       LAMBDA f : ContainsAny(keywords, Lower(f.name)))
        ELSE <<>>
      all == Concat([k \in DOMAIN diagram_dirs |->
               Concat([j \in DOMAIN diagram_patterns |->
                 found(diagram_dirs[k], diagram_patterns[j])])])
  IN  Take([i \in DOMAIN all |->
              Item("CTRL-011-002", "documentation", RelPath(all[i]), PyNone,
                   Ratio(8, 10), {<<"file_size", Len(all[i].content)>>})], 5)

\* lines 141-163
_scan_changelog(listing) ==
  LET patterns == <<<<"C","H","A","N","G","E","L","O","G",".","m","d">>, <<"C","H","A","N","G","E","L","O","G",".","r","s","t">>, <<"C","H","A","N","G","E","L","O","G",".","t","x","t">>, <<"C","H","A","N","G","E","L","O","G">>>>
      hit(p) == Take(Named(listing, <<>>, p), 1)
  IN  Concat([k \in DOMAIN patterns |->
        [i \in DOMAIN hit(patterns[k]) |->
           Item("CTRL-011-005", "documentation", RelPath(hit(patterns[k])[i]),
                _read_file_preview(hit(patterns[k])[i], 500), Ratio(10, 10),
                {})]])

\* lines 165-201
_scan_logging_config(listing) ==
  LET config_patterns == <<<<"l","o","g","g","i","n","g",".","c","o","n","f">>, <<"l","o","g","g","i","n","g",".","i","n","i">>, <<"l","o","g","g","i","n","g",".","y","a","m","l">>, <<"l","o","g","g","i","n","g",".","j","s","o","n">>>>
      configs == Concat([k \in DOMAIN config_patterns |->
                   RGlobNamed(listing, config_patterns[k])])
      code == Take(SelectSeq(RGlobSuffix(listing, <<".","p","y">>),
                     LAMBDA f : _file_contains_pattern(f,
                                  <<<<"i","m","p","o","r","t"," ","l","o","g","g","i","n","g">>, <<"l","o","g","g","i","n","g",".","b","a","s","i","c","C","o","n","f","i","g">>>>)), 1)
  IN  Take([i \in DOMAIN configs |->
              Item("CTRL-012-001", "config", RelPath(configs[i]), PyNone,
                   Ratio(10, 10), {})]
           \o [i \in DOMAIN code |->
              Item("CTRL-012-001", "code", RelPath(code[i]), PyNone,
                   Ratio(7, 10), {})], 3)

\* lines 203-227
_scan_audit_trail(listing) ==
  LET keywords == <<<<"a","u","d","i","t">>, <<"l","o","g">>, <<"t","r","a","c","k">>, <<"r","e","c","o","r","d">>>>
      hits == SelectSeq(RGlobSuffix(listing, <<".","p","y">>),
                LAMBDA f : /\ ContainsAny(keywords, Lower(f.name))
                           /\ _file_contains_pattern(f, keywords))
  IN  [i \in DOMAIN Take(hits, 3) |->
         Item("CTRL-012-002", "code", RelPath(hits[i]), PyNone,
              Ratio(6, 10), {})]

\* lines 229-279
_scan_ci_config(listing) ==
  LET gh_workflows == <<<<".","g","i","t","h","u","b">>, <<"w","o","r","k","f","l","o","w","s">>>>
      workflows == IF DirExists(listing, gh_workflows)
                   THEN GlobSuffix(listing, gh_workflows, <<".","y","m","l">>)
                   ELSE <<>>
      gitlab_ci == Named(listing, <<>>, <<".","g","i","t","l","a","b","-","c","i",".","y","m","l">>)
      circle_ci == Named(listing, <<<<".","c","i","r","c","l","e","c","i">>>>, <<"c","o","n","f","i","g",".","y","m","l">>)
      all == workflows \o gitlab_ci \o circle_ci
  IN  Take([i \in DOMAIN all |->
              Item("CTRL-015-003", "ci_cd", RelPath(all[i]), PyNone,
                   Ratio(10, 10), {})], 5)

\* lines 281-311
_scan_dependencies(listing) ==
  LET dep_files == <<<<"r","e","q","u","i","r","e","m","e","n","t","s",".","t","x","t">>, <<"p","a","c","k","a","g","e",".","j","s","o","n">>, <<"P","i","p","f","i","l","e">>, <<"p","o","e","t","r","y",".","l","o","c","k">>,
                     <<"y","a","r","n",".","l","o","c","k">>, <<"g","o",".","m","o","d">>, <<"G","e","m","f","i","l","e">>>>
      present == SelectSeq(dep_files,
                   LAMBDA name : Named(listing, <<>>, name) # <<>>)
  IN  [i \in DOMAIN present |->
         Item("CTRL-015-004", "file", <<present[i]>>, PyNone, Ratio(10, 10),
              {<<"dependency_manager", present[i]>>})]

\* lines 313-352
_scan_system_docs(listing) ==
  LET docs_dir == <<<<"d","o","c","s">>>>
      docs == IF DirExists(listing, docs_dir)
              THEN SelectSeq(GlobSuffix(listing, docs_dir, <<".","m","d">>),
                     LAMBDA f : ContainsAny(<<<<"s","y","s","t","e","m">>, <<"o","v","e","r","v","i","e","w">>, <<"a","r","c","h","i","t","e","c","t","u","r","e">>>>,
                                            Lower(f.name)))
              ELSE <<>>
      readme == SelectSeq(Named(listing, <<>>, <<"R","E","A","D","M","E",".","m","d">>),
                  LAMBDA f : ContainsAny(<<<<"s","y","s","t","e","m">>, <<"a","r","c","h","i","t","e","c","t","u","r","e">>, <<"o","v","e","r","v","i","e","w">>>>,
                                         Lower(_read_file_preview(f, 1000))))
  IN  Take([i \in DOMAIN docs |->
              Item("CTRL-ANX4-001", "documentation", RelPath(docs[i]), PyNone,
                   Ratio(8, 10), {})]
           \o [i \in DOMAIN readme |->
              Item("CTRL-ANX4-001", "documentation", <<<<"R","E","A","D","M","E",".","m","d">>>>,
                   Take(_read_file_preview(readme[i], 1000), 200),
                   Ratio(6, 10), {})], 3)

\* lines 354-373
_scan_requirements(listing) ==
  LET files == <<<<"r","e","q","u","i","r","e","m","e","n","t","s",".","t","x","t">>, <<"D","o","c","k","e","r","f","i","l","e">>, <<"d","o","c","k","e","r","-","c","o","m","p","o","s","e",".","y","m","l">>>>
      present == SelectSeq(files,
                   LAMBDA name : Named(listing, <<>>, name) # <<>>)
  IN  [i \in DOMAIN present |->
         Item("CTRL-ANX4-003", "config", <<present[i]>>, PyNone,
              Ratio(10, 10), {})]

\* lines 375-412
_scan_version(listing) ==
  LET version_files == <<<<"V","E","R","S","I","O","N">>, <<"v","e","r","s","i","o","n",".","t","x","t">>, <<"C","H","A","N","G","E","L","O","G",".","m","d">>>>
      present == SelectSeq(version_files,
                   LAMBDA name : Named(listing, <<>>, name) # <<>>)
      packages == <<<<"p","a","c","k","a","g","e",".","j","s","o","n">>, <<"p","y","p","r","o","j","e","c","t",".","t","o","m","l">>>>
      versioned == SelectSeq(packages,
                     LAMBDA name :
                       \E i \in DOMAIN Named(listing, <<>>, name) :
                         _file_contains_pattern(Named(listing, <<>>, name)[i],
                                                <<<<"v","e","r","s","i","o","n">>>>))
  IN  Take([i \in DOMAIN present |->
              Item("CTRL-ANX4-005", "file", <<present[i]>>, PyNone,
                   Ratio(10, 10), {})]
           \o [i \in DOMAIN versioned |->
              Item("CTRL-ANX4-005", "config", <<versioned[i]>>, PyNone,
                   Ratio(9, 10), {})], 3)

\* The routing of lines 56-75.
Collect(control_id, listing) ==
  CASE control_id = "CTRL-011-001" -> _scan_readme(listing)
    [] control_id = "CTRL-011-002" -> _scan_diagrams(listing)
    [] control_id = "CTRL-011-005" -> _scan_changelog(listing)
    [] control_id = "CTRL-012-001" -> _scan_logging_config(listing)
    [] control_id = "CTRL-012-002" -> _scan_audit_trail(listing)
    [] control_id = "CTRL-015-003" -> _scan_ci_config(listing)
    [] control_id = "CTRL-015-004" -> _scan_dependencies(listing)
    [] control_id = "CTRL-ANX4-001" -> _scan_system_docs(listing)
    [] control_id = "CTRL-ANX4-003" -> _scan_requirements(listing)
    [] control_id = "CTRL-ANX4-005" -> _scan_version(listing)
    [] OTHER -> <<>>

\* The Evidence objects a collector built: each draws its own uuid4, here
\* the call, the control and the position.
evidence_items_of(sid, call, control_id, listing) ==
  LET items == Collect(control_id, listing)
  IN  [i \in DOMAIN items |->
         Evidence(<<call, control_id, i>>, sid, items[i].control_id,
                  items[i].type, items[i].path, items[i].preview,
                  items[i].confidence, items[i].meta)]

\* The loop of RepoScanner.scan, lines 48-80, from the i-th control on.
\* st holds self.evidence_list, self.findings_list and whether a call of
\* _create_finding raised, which ends the loop and the call.
RECURSIVE scan_loop(_, _, _, _, _)
scan_loop(i, st, sid, call, listing) ==
  IF i > Len(FIRST_WAVE_CONTROLS) THEN st
  ELSE
    LET control_id == FIRST_WAVE_CONTROLS[i]
        items == evidence_items_of(sid, call, control_id, listing)
        f == _create_finding(sid, control_id, items)
    IN  IF get_control_by_id(control_id) = NoControl
          THEN scan_loop(i + 1, st, sid, call, listing)
        ELSE IF "raised" \in DOMAIN f
          THEN [st EXCEPT !.raised = TRUE]
        ELSE scan_loop(i + 1,
               [st EXCEPT !.findings_list = Append(@, f),
                          !.evidence_list = @ \o items],
               sid, call, listing)

\* A plausible slip: scan() starts from empty lists on every call.
scan_fresh(st, sid, call, listing) ==
  scan_loop(1, [st EXCEPT !.evidence_list = <<>>, !.findings_list = <<>>],
            sid, call, listing)

\* RepoScanner.scan, lines 44-82
scan(st, sid, call, listing) == scan_loop(1, st, sid, call, listing)

\* --------------------------------------------- sdk/document_analyzer.py
\* A Python dict is the list of its entries in insertion order; keys and
\* strings are texts; a value is a str or a dict.
StrValue(t) == [type |-> "str", text |-> t]

DictValue(d) == [type |-> "dict", items |-> d]

Entry(k, v) == [key |-> k, value |-> v]

HasKey(d, k) == \E i \in DOMAIN d : d[i].key = k

\* d.get(k, default)
DictGet(d, k, default) ==
  IF HasKey(d, k) THEN d[CHOOSE i \in DOMAIN d : d[i].key = k].value
  ELSE default

EmptyStr == StrValue(<<>>)

\* DocumentAnalyzer.parse_metadata, lines 8-37
parse_metadata(md) ==
  << Entry(<<"s","y","s","t","e","m","_","n","a","m","e">>, DictGet(md, <<"s","y","s","t","e","m","_","n","a","m","e">>, StrValue(<<"U","n","n","a","m","e","d"," ","S","y","s","t","e","m">>))),
     Entry(<<"d","e","s","c","r","i","p","t","i","o","n">>, DictGet(md, <<"d","e","s","c","r","i","p","t","i","o","n">>, EmptyStr)),
     Entry(<<"u","s","e","_","c","a","s","e">>, DictGet(md, <<"u","s","e","_","c","a","s","e">>, EmptyStr)),
     Entry(<<"a","p","p","l","i","c","a","t","i","o","n","_","d","o","m","a","i","n">>, DictGet(md, <<"a","p","p","l","i","c","a","t","i","o","n","_","d","o","m","a","i","n">>, EmptyStr)),
     Entry(<<"m","o","d","e","l","_","t","y","p","e">>, DictGet(md, <<"m","o","d","e","l","_","t","y","p","e">>, EmptyStr)),
     Entry(<<"p","r","o","v","i","d","e","r">>, DictGet(md, <<"p","r","o","v","i","d","e","r">>, EmptyStr)),
     Entry(<<"v","e","r","s","i","o","n">>, DictGet(md, <<"v","e","r","s","i","o","n">>, StrValue(<<"1",".","0">>))),
     Entry(<<"d","o","c","u","m","e","n","t","a","t","i","o","n">>, DictValue(
       << Entry(<<"r","i","s","k","_","m","a","n","a","g","e","m","e","n","t">>, DictGet(md, <<"r","i","s","k","_","m","a","n","a","g","e","m","e","n","t">>, EmptyStr)),
          Entry(<<"d","a","t","a","_","g","o","v","e","r","n","a","n","c","e">>, DictGet(md, <<"d","a","t","a","_","g","o","v","e","r","n","a","n","c","e">>, EmptyStr)),
          Entry(<<"t","e","c","h","n","i","c","a","l","_","d","o","c","s">>, DictGet(md, <<"t","e","c","h","n","i","c","a","l","_","d","o","c","s">>, EmptyStr)),
          Entry(<<"t","e","s","t","i","n","g","_","p","r","o","c","e","d","u","r","e","s">>, DictGet(md, <<"t","e","s","t","i","n","g","_","p","r","o","c","e","d","u","r","e","s">>, EmptyStr)),
          Entry(<<"h","u","m","a","n","_","o","v","e","r","s","i","g","h","t">>, DictGet(md, <<"h","u","m","a","n","_","o","v","e","r","s","i","g","h","t">>, EmptyStr)),
          Entry(<<"a","c","c","u","r","a","c","y","_","m","e","t","r","i","c","s">>, DictGet(md, <<"a","c","c","u","r","a","c","y","_","m","e","t","r","i","c","s">>, EmptyStr)) >>)) >>

\* -------------------------------------------- sdk/compliance_checker.py
\* lines 9-78
COMPLIANCE_REQUIREMENTS ==
  <<
    [article_id |-> "article_9",
     title |-> "Risk Management System",
     required_elements |-> <<
       <<"r","i","s","k"," ","i","d","e","n","t","i","f","i","c","a","t","i","o","n">>,  \* risk identification
       <<"r","i","s","k"," ","a","s","s","e","s","s","m","e","n","t">>,  \* risk assessment
       <<"r","i","s","k"," ","m","i","t","i","g","a","t","i","o","n">>,  \* risk mitigation
       <<"t","e","s","t","i","n","g">>,  \* testing
       <<"m","o","n","i","t","o","r","i","n","g">>  \* monitoring
     >>],
    [article_id |-> "article_10",
     title |-> "Data and Data Governance",
     required_elements |-> <<
       <<"t","r","a","i","n","i","n","g"," ","d","a","t","a">>,  \* training data
       <<"d","a","t","a"," ","q","u","a","l","i","t","y">>,  \* data quality
       <<"b","i","a","s"," ","d","e","t","e","c","t","i","o","n">>,  \* bias detection
       <<"d","a","t","a"," ","r","e","l","e","v","a","n","c","e">>,  \* data relevance
       <<"d","a","t","a"," ","r","e","p","r","e","s","e","n","t","a","t","i","v","e","n","e","s","s">>  \* data representativeness
     >>],
    [article_id |-> "article_11",
     title |-> "Technical Documentation",
     required_elements |-> <<
       <<"g","e","n","e","r","a","l"," ","d","e","s","c","r","i","p","t","i","o","n">>,  \* general description
       <<"d","e","v","e","l","o","p","m","e","n","t"," ","p","r","o","c","e","s","s">>,  \* development process
       <<"d","e","s","i","g","n"," ","s","p","e","c","i","f","i","c","a","t","i","o","n","s">>,  \* design specifications
       <<"p","e","r","f","o","r","m","a","n","c","e"," ","m","e","t","r","i","c","s">>,  \* performance metrics
       <<"v","a","l","i","d","a","t","i","o","n"," ","p","r","o","c","e","d","u","r","e","s">>  \* validation procedures
     >>],
    [article_id |-> "article_12",
     title |-> "Record-keeping",
     required_elements |-> <<
       <<"a","u","t","o","m","a","t","i","c"," ","l","o","g","g","i","n","g">>,  \* automatic logging
       <<"e","v","e","n","t"," ","r","e","c","o","r","d","i","n","g">>,  \* event recording
       <<"t","r","a","c","e","a","b","i","l","i","t","y">>,  \* traceability
       <<"a","u","d","i","t"," ","t","r","a","i","l">>  \* audit trail
     >>],
    [article_id |-> "article_13",
     title |-> "Transparency and Information to Users",
     required_elements |-> <<
       <<"u","s","e","r"," ","i","n","s","t","r","u","c","t","i","o","n","s">>,  \* user instructions
       <<"c","a","p","a","b","i","l","i","t","i","e","s"," ","d","e","s","c","r","i","p","t","i","o","n">>,  \* capabilities description
       <<"l","i","m","i","t","a","t","i","o","n","s">>,  \* limitations
       <<"p","e","r","f","o","r","m","a","n","c","e"," ","l","e","v","e","l">>,  \* performance level
       <<"h","u","m","a","n"," ","o","v","e","r","s","i","g","h","t"," ","i","n","f","o","r","m","a","t","i","o","n">>  \* human oversight information
     >>],
    [article_id |-> "article_14",
     title |-> "Human Oversight",
     required_elements |-> <<
       <<"o","v","e","r","s","i","g","h","t"," ","m","e","a","s","u","r","e","s">>,  \* oversight measures
       <<"h","u","m","a","n"," ","i","n","t","e","r","v","e","n","t","i","o","n">>,  \* human intervention
       <<"s","t","o","p"," ","c","a","p","a","b","i","l","i","t","y">>,  \* stop capability
       <<"m","o","n","i","t","o","r","i","n","g"," ","c","a","p","a","b","i","l","i","t","y">>  \* monitoring capability
     >>],
    [article_id |-> "article_15",
     title |-> "Accuracy, Robustness and Cybersecurity",
     required_elements |-> <<
       <<"a","c","c","u","r","a","c","y"," ","m","e","t","r","i","c","s">>,  \* accuracy metrics
       <<"r","o","b","u","s","t","n","e","s","s"," ","t","e","s","t","i","n","g">>,  \* robustness testing
       <<"c","y","b","e","r","s","e","c","u","r","i","t","y"," ","m","e","a","s","u","r","e","s">>,  \* cybersecurity measures
       <<"r","e","s","i","l","i","e","n","c","e">>,  \* resilience
       <<"e","r","r","o","r"," ","h","a","n","d","l","i","n","g">>  \* error handling
     >>]
  >>

\* lines 171-178
related_terms ==
  <<
    [element |-> <<"r","i","s","k"," ","i","d","e","n","t","i","f","i","c","a","t","i","o","n">>,  \* risk identification
     terms |-> <<
       <<"i","d","e","n","t","i","f","y"," ","r","i","s","k","s">>,  \* identify risks
       <<"r","i","s","k"," ","a","n","a","l","y","s","i","s">>  \* risk analysis
     >>],
    [element |-> <<"r","i","s","k"," ","a","s","s","e","s","s","m","e","n","t">>,  \* risk assessment
     terms |-> <<
       <<"a","s","s","e","s","s"," ","r","i","s","k","s">>,  \* assess risks
       <<"r","i","s","k"," ","e","v","a","l","u","a","t","i","o","n">>  \* risk evaluation
     >>],
    [element |-> <<"t","r","a","i","n","i","n","g"," ","d","a","t","a">>,  \* training data
     terms |-> <<
       <<"d","a","t","a","s","e","t">>,  \* dataset
       <<"t","r","a","i","n","i","n","g"," ","s","e","t">>,  \* training set
       <<"d","a","t","a"," ","c","o","l","l","e","c","t","i","o","n">>  \* data collection
     >>],
    [element |-> <<"b","i","a","s"," ","d","e","t","e","c","t","i","o","n">>,  \* bias detection
     terms |-> <<
       <<"b","i","a","s"," ","m","i","t","i","g","a","t","i","o","n">>,  \* bias mitigation
       <<"f","a","i","r","n","e","s","s">>  \* fairness
     >>],
    [element |-> <<"h","u","m","a","n"," ","o","v","e","r","s","i","g","h","t">>,  \* human oversight
     terms |-> <<
       <<"h","u","m","a","n"," ","i","n"," ","t","h","e"," ","l","o","o","p">>,  \* human in the loop
       <<"h","u","m","a","n"," ","s","u","p","e","r","v","i","s","i","o","n">>  \* human supervision
     >>],
    [element |-> <<"a","c","c","u","r","a","c","y"," ","m","e","t","r","i","c","s">>,  \* accuracy metrics
     terms |-> <<
       <<"a","c","c","u","r","a","c","y">>,  \* accuracy
       <<"p","r","e","c","i","s","i","o","n">>,  \* precision
       <<"r","e","c","a","l","l">>,  \* recall
       <<"f","1"," ","s","c","o","r","e">>  \* f1 score
     >>]
  >>

\* sep.join(parts)
RECURSIVE Join(_, _)
Join(sep, parts) ==
  IF parts = <<>> THEN <<>>
  ELSE IF Len(parts) = 1 THEN parts[1]
  ELSE parts[1] \o sep \o Join(sep, Tail(parts))

Quote == "'"

DoubleQuote == "\""

Backslash == "\\"

\* The text with every occurrence of the quote q and of the backslash
\* preceded by a backslash.
RECURSIVE Escape(_, _)
Escape(t, q) ==
  IF t = <<>> THEN t
  ELSE IF Len(t) = 1
    THEN (IF t[1] = q \/ t[1] = Backslash THEN <<Backslash, t[1]>> ELSE t)
  ELSE LET half == Len(t) \div 2
       IN  Escape(SubSeq(t, 1, half), q) \o Escape(SubSeq(t, half + 1, Len(t)), q)

\* repr() of a str of printable ASCII: single quotes, or double quotes
\* when the text holds a single quote and no double quote; the quote in
\* use and the backslash are escaped.
StrRepr(t) ==
  LET q == IF Quote \in Range(t) /\ DoubleQuote \notin Range(t)
             THEN DoubleQuote ELSE Quote
  IN  <<q>> \o Escape(t, q) \o <<q>>

\* str() of a dict: {'key': value, ...}
RECURSIVE PyStr(_)
PyStr(v) ==
  IF v.type = "str" THEN StrRepr(v.text)
  ELSE <<"{">>
         \o Join(<<","," ">>,
                 [i \in DOMAIN v.items |->
                    StrRepr(v.items[i].key) \o <<":"," ">> \o PyStr(v.items[i].value)])
         \o <<"}">>

\* ComplianceChecker._combine_text, lines 108-125
_combine_text(md, docs) ==
  LET part(v) == IF v.type = "str" THEN <<Lower(v.text)>>
                 ELSE IF v.type = "dict" THEN <<Lower(PyStr(v))>>
                 ELSE <<>>
      text_parts == Concat([i \in DOMAIN md |-> part(md[i].value)])
      doc_parts == IF docs = PyNone THEN <<>>
                   ELSE [i \in DOMAIN docs |-> Lower(docs[i])]
  IN  Join(Space, text_parts \o doc_parts)

\* A plausible slip: the related terms of every registered element are
\* added to the search terms, not those of the element alone.
_search_element_all_related(element, text) ==
  LET search_terms == <<element>> \o Concat([i \in DOMAIN related_terms |-> related_terms[i].terms])
  IN  \E i \in DOMAIN search_terms : Contains(search_terms[i], text)

\* ComplianceChecker._search_element, lines 165-187
_search_element(element, text) ==
  LET related == SelectSeq(related_terms, LAMBDA r : r.element = element)
      search_terms == <<element>> \o Concat([i \in DOMAIN related |-> related[i].terms])
  IN  \E i \in DOMAIN search_terms : Contains(search_terms[i], text)

\* str.find: the index (from 0) of the first occurrence, or -1
Find(kw, text) ==
  IF Contains(kw, text)
    THEN (CHOOSE i \in 1..(Len(text) - Len(kw) + 1) :
            /\ SubSeq(text, i, i + Len(kw) - 1) = kw
            /\ \A k \in 1..(i - 1) : SubSeq(text, k, k + Len(kw) - 1) # kw) - 1
    ELSE -1

Whitespace == {" ", "\t", "\n", "\r"}

\* str.strip()
RECURSIVE Strip(_)
Strip(t) ==
  IF t = <<>> THEN t
  ELSE IF Head(t) \in Whitespace THEN Strip(Tail(t))
  ELSE IF t[Len(t)] \in Whitespace THEN Strip(SubSeq(t, 1, Len(t) - 1))
  ELSE t

Ellipsis == <<".",".",".">>

\* ComplianceChecker._extract_evidence, lines 189-206
_extract_evidence(element, text, context_length) ==
  LET element_lower == Lower(element)
      idx == Find(element_lower, text)
      start == Max(0, idx - context_length \div 2)
      end == Min(Len(text), idx + Len(element_lower) + context_length \div 2)
      snippet == Strip(SubSeq(text, start + 1, end))
  IN  IF idx = -1 THEN <<"E","l","e","m","e","n","t"," ","m","e","n","t","i","o","n","e","d">>
      ELSE (IF start > 0 THEN Ellipsis ELSE <<>>) \o snippet
             \o (IF end < Len(text) THEN Ellipsis ELSE <<>>)

\* ComplianceChecker._generate_recommendation, lines 208-213: the two
\* sentences, kept as their variable parts.
_generate_recommendation(missing_elements, article_title) ==
  IF missing_elements = <<>>
    THEN [sentence |-> "adequately covers", article_title |-> article_title]
    ELSE [sentence |-> "provide documentation for",
          article_title |-> article_title, missing |-> missing_elements]

\* The literals 0.8 and 0.4 of lines 147 and 149.
CompliantRatio == TrueDiv(8, 10)

PartialRatio == TrueDiv(4, 10)

\* A plausible slip: strict comparisons at the two thresholds.
status_of_strict(compliance_ratio) ==
  IF FloatLess(CompliantRatio, compliance_ratio) THEN "compliant"
  ELSE IF FloatLess(PartialRatio, compliance_ratio) THEN "partially_compliant"
  ELSE "non_compliant"

\* lines 147-152
status_of(compliance_ratio) ==
  IF FloatGeq(compliance_ratio, CompliantRatio) THEN "compliant"
  ELSE IF FloatGeq(compliance_ratio, PartialRatio) THEN "partially_compliant"
  ELSE "non_compliant"

\* The default context_length of line 189.
DefaultContextLength == 100

\* ComplianceChecker._check_article_compliance, lines 127-163
_check_article_compliance(article_id, requirements, text) ==
  LET title == requirements.title
      required_elements == requirements.required_elements
      found_elements == SelectSeq(required_elements,
                                  LAMBDA e : _search_element(e, text))
      missing_elements == SelectSeq(required_elements,
                                    LAMBDA e : e \notin Range(found_elements))
      evidence == [e \in Range(found_elements) |->
                     _extract_evidence(e, text, DefaultContextLength)]
      compliance_ratio == TrueDiv(Len(found_elements), Len(required_elements))
  IN  [article_id |-> article_id,
       title |-> title,
       status |-> status_of(compliance_ratio),
       compliance_ratio |-> compliance_ratio,
       found_elements |-> found_elements,
       missing_elements |-> missing_elements,
       evidence |-> evidence,
       recommendation |-> _generate_recommendation(missing_elements, title)]

\* The literals of lines 248-254.
GradeBands ==
  << [grade |-> "A", from |-> TrueDiv(9, 10)],
     [grade |-> "B", from |-> TrueDiv(8, 10)],
     [grade |-> "C", from |-> TrueDiv(6, 10)],
     [grade |-> "D", from |-> TrueDiv(4, 10)] >>

\* ComplianceChecker._get_grade, lines 246-257
_get_grade(score) ==
  IF \E i \in DOMAIN GradeBands : FloatGeq(score, GradeBands[i].from)
    THEN GradeBands[CHOOSE i \in DOMAIN GradeBands :
                      /\ FloatGeq(score, GradeBands[i].from)
                      /\ \A j \in 1..(i - 1) : ~FloatGeq(score, GradeBands[j].from)].grade
    ELSE "F"

\* sum(scores): left to right from the int 0
RECURSIVE FloatSumFrom(_, _)
FloatSumFrom(acc, scores) ==
  IF scores = <<>> THEN acc
  ELSE FloatSumFrom(FloatAdd(acc, Head(scores)), Tail(scores))

FloatSum(scores) == FloatSumFrom(FloatZero, scores)

CountStatus(article_results, status) ==
  Cardinality({i \in DOMAIN article_results : article_results[i].status = status})

\* ComplianceChecker._calculate_score, lines 215-244
_calculate_score(article_results) ==
  LET scores == [i \in DOMAIN article_results |-> article_results[i].compliance_ratio]
      avg_score == IF scores # <<>> THEN FloatDivInt(FloatSum(scores), Len(scores))
                   ELSE FloatZero
  IN  [percentage |-> PyRound(FloatMulInt(avg_score, 100), 2),
       grade |-> _get_grade(avg_score),
       compliant_articles |-> CountStatus(article_results, "compliant"),
       partially_compliant_articles |->
         CountStatus(article_results, "partially_compliant"),
       non_compliant_articles |->
         Len(scores) - CountStatus(article_results, "compliant")
           - CountStatus(article_results, "partially_compliant"),
       total_articles |-> Len(scores)]

\* ComplianceChecker.check_compliance, lines 80-106: the per-article
\* results in the order of COMPLIANCE_REQUIREMENTS, and the overall score.
check_compliance(md, docs) ==
  LET all_text == _combine_text(md, docs)
      article_results ==
        [i \in DOMAIN COMPLIANCE_REQUIREMENTS |->
           _check_article_compliance(COMPLIANCE_REQUIREMENTS[i].article_id,
                                     COMPLIANCE_REQUIREMENTS[i], all_text)]
  IN  [articles |-> article_results,
       overall_score |-> _calculate_score(article_results)]

\* --------------------------------- repo_scanner.py: calculate_coverage
\* sum(1 for f in findings if f.status == status), lines 496-498
StatusCount(fs, status) ==
  Cardinality({i \in DOMAIN fs : fs[i].status = status})

\* The literal 0.5 of lines 500 and 517.
HalfCredit == TrueDiv(1, 2)

\* (compliant + 0.5 * partial) / total * 100, lines 500 and 517
half_credit_pct(compliant, partial, total) ==
  FloatMulInt(
    FloatDivInt(FloatAdd(FloatOfInt(compliant), FloatMulInt(HalfCredit, partial)),
                total),
    100)

\* A plausible slip: a partial finding given full credit.
coverage_pct_full_credit(fs) ==
  half_credit_pct(StatusCount(fs, "compliant") + 2 * StatusCount(fs, "partial"),
                  0, Max(1, Len(fs)))

\* line 500
coverage_pct(fs) ==
  half_credit_pct(StatusCount(fs, "compliant"), StatusCount(fs, "partial"),
                  Max(1, Len(fs)))

\* The keys of by_article in insertion order: each article at the place of
\* its first finding.
RECURSIVE ArticlesInOrder(_)
ArticlesInOrder(fs) ==
  IF fs = <<>> THEN <<>>
  ELSE LET before == ArticlesInOrder(SubSeq(fs, 1, Len(fs) - 1))
           article == fs[Len(fs)].article
       IN  IF article \in Range(before) THEN before ELSE Append(before, article)

ArticleStats(fs, article) ==
  LET own == SelectSeq(fs, LAMBDA f : f.article = article)
  IN  [total |-> Len(own),
       compliant |-> StatusCount(own, "compliant"),
       partial |-> StatusCount(own, "partial")]

\* A plausible slip: the dict is prefilled with the articles of the
\* first-wave controls, so that an article without findings is reported.
by_article_prefilled(fs) ==
  LET known == <<"Article 11", "Article 12", "Article 15", "Annex IV">>
      keys == known \o SelectSeq(ArticlesInOrder(fs), LAMBDA a : a \notin Range(known))
  IN  [i \in DOMAIN keys |->
         [key |-> keys[i],
          value |-> LET s == ArticleStats(fs, keys[i])
                    IN  [s EXCEPT !.total = Max(1, @)]]]

\* A plausible slip: the counters of an article start again at each of its
\* findings, so that only the last one counts.
by_article_last_only(fs) ==
  LET keys == ArticlesInOrder(fs)
      last(a) == fs[CHOOSE i \in DOMAIN fs :
                      /\ fs[i].article = a
                      /\ \A j \in (i + 1)..Len(fs) : fs[j].article # a]
  IN  [i \in DOMAIN keys |->
         [key |-> keys[i], value |-> ArticleStats(<<last(keys[i])>>, keys[i])]]

\* lines 503-513: by_article, a dict in insertion order
by_article(fs) ==
  LET keys == ArticlesInOrder(fs)
  IN  [i \in DOMAIN keys |->
         [key |-> keys[i], value |-> ArticleStats(fs, keys[i])]]

\* calculate_coverage, lines 493-533
calculate_coverage(fs) ==
  LET total == Len(fs)
      compliant == StatusCount(fs, "compliant")
      partial == StatusCount(fs, "partial")
      non_compliant == StatusCount(fs, "non_compliant")
      stats == by_article(fs)
      article_coverage ==
        [i \in DOMAIN stats |->
           [key |-> stats[i].key,
            value |-> PyRound(half_credit_pct(stats[i].value.compliant,
                                              stats[i].value.partial,
                                              stats[i].value.total), 1)]]
  IN  [total_controls |-> total,
       checked_controls |-> total,
       compliant |-> compliant,
       partial |-> partial,
       non_compliant |-> non_compliant,
       not_applicable |-> 0,
       pending |-> 0,
       coverage_percentage |-> PyRound(coverage_pct(fs), 1),
       automated_checked |-> total,
       automated_compliant |-> compliant,
       article_coverage |-> article_coverage]

\* ------------------------------------------- server.py: repository scans
\* The id scan_repository draws for the request (uuid4).
ServerScanId == "scan-1"

NoUpload == [field |-> "none"]

NoResponse == [status |-> 0]

EmptyDb == [evidence_scans |-> <<>>, evidence |-> <<>>, findings |-> <<>>]

\* EvidenceScan(...).model_dump(), lines 337-358: the fields the endpoints
\* read.
EvidenceScan(name, filename, evidence, found) ==
  [id |-> ServerScanId, name |-> name, type |-> "evidence",
   scan_method |-> "repo",
   target |-> [type |-> "repository", path |-> filename],
   findings |-> found,
   evidence_count |-> Len(evidence),
   coverage |-> calculate_coverage(found),
   metadata |-> [first_wave_scan |-> TRUE, controls_checked |-> Len(found)]]

\* ------------------------------------------------ worker.py: analyzers
\* models.py: Evidence, as the tasks fill it.
WorkerEvidence(rule, status, summary) ==
  [scan_id |-> "scan-w", artifact_id |-> "artifact-1", rule |-> rule,
   status |-> status, summary |-> summary]

\* A plausible slip: the handler leaves the record pending for a retry.
error_evidence_pending(rule, summary) ==
  WorkerEvidence(rule, "pending", summary)

\* The Evidence of the except clauses (lines 120-143, 210-221, 285-296,
\* 395-406).
error_evidence(rule, summary) ==
  WorkerEvidence(rule, "error", summary)

NoTask == [name |-> "none"]

NoAnalysis == [kind |-> "none"]

\* ================================================= specifications
\* The components a specification does not exercise stay as constructed.
ClassifierIdle == metadata = <<>> /\ risk = NoResult

SynthesizerIdle ==
  control = NoControl /\ evidence_items = <<>> /\ finding = NoFinding

ScannerIdle ==
  /\ repo = {}
  /\ scan_id = "none"
  /\ evidence_list = <<>>
  /\ findings_list = <<>>
  /\ calls = 0
  /\ scan_raised = FALSE

CheckerIdle ==
  /\ raw_metadata = <<>>
  /\ documents = PyNone
  /\ parsed_metadata = <<>>
  /\ compliance_result = [articles |-> <<>>]

CoverageIdle == findings = <<>> /\ coverage = <<>>

ServerIdle ==
  /\ upload = NoUpload
  /\ post_pc = "idle"
  /\ post_status = 0
  /\ scanner_runs = 0
  /\ scan_output = [evidence_list |-> <<>>, findings_list |-> <<>>]
  /\ db = EmptyDb
  /\ get_pc = "idle"
  /\ get_scan = [id |-> "none"]
  /\ get_response = NoResponse
  /\ reads = 0

WorkerIdle ==
  /\ task = NoTask
  /\ worker_pc = "idle"
  /\ analysis = NoAnalysis
  /\ to_save = NoTask
  /\ in_handler = FALSE
  /\ stored = <<>>

\* ---- inputs of the classifier
Fields == <<"description", "use_case", "application_domain">>

Vocabulary ==
  { <<"S","o","c","i","a","l"," ","S","c","o","r","i","n","g">>,  \* Social Scoring
    <<"l","a","w">>,
    <<"e","n","f","o","r","c","e","m","e","n","t">>,
    <<"r","e","c","r","u","i","t","m","e","n","t">>,
    <<"h","i","r","i","n","g">>,
    <<"v","i","s","a">>,
    <<"c","h","a","t","b","o","t">>,
    <<"d","e","e","p","f","a","k","e">>,
    <<"E","m","o","t","i","o","n"," ","R","e","c","o","g","n","i","t","i","o","n">>,
    <<"b","i","o","m","e","t","r","i","c"," ","c","a","t","e","g","o","r","i","z","a","t","i","o","n">> }

RECURSIVE JoinWords(_)
JoinWords(ws) ==
  IF ws = <<>> THEN <<>>
  ELSE IF Len(ws) = 1 THEN ws[1]
  ELSE ws[1] \o Space \o JoinWords(Tail(ws))

\* Word lists for the three fields, at most MaxWords fragments in all.
FieldWords ==
  UNION { UNION { UNION { ([1..kd -> Vocabulary] \X [1..ku -> Vocabulary])
                            \X [1..ka -> Vocabulary]
                          : ka \in 0..(MaxWords - kd - ku) }
                  : ku \in 0..(MaxWords - kd) }
          : kd \in 0..MaxWords }

\* A metadata dict: a field without words is the empty string, or (omit)
\* is not a key of the dict at all.
MakeMetadata(w, omit) ==
  LET ws == <<w[1][1], w[1][2], w[2]>>
  IN  [k \in {Fields[j] : j \in {i \in 1..3 : ~(omit /\ ws[i] = <<>>)}} |->
         JoinWords(ws[CHOOSE j \in 1..3 : Fields[j] = k])]

MetadataInputs == {MakeMetadata(w, o) : w \in FieldWords, o \in BOOLEAN}

InitClassify ==
  /\ metadata \in MetadataInputs
  /\ risk = NoResult
  /\ SynthesizerIdle
  /\ ScannerIdle
  /\ CheckerIdle
  /\ CoverageIdle
  /\ ServerIdle
  /\ WorkerIdle

\* One call of RiskClassifier.classify on the metadata.
Classify ==
  /\ risk = NoResult
  /\ \E cats \in categories(high_risk_matches(combined_text(metadata))) :
       risk' = classify(metadata, cats)
  /\ UNCHANGED <<metadata, synthesizer_vars, scanner_vars, checker_vars,
                 coverage_vars,
                 server_vars, worker_vars>>

NextClassify == Classify

SpecClassify == InitClassify /\ [][NextClassify]_vars

\* ---- inputs of the finding synthesizer
\* Control.evidence_requirements is any list of strings and defaults to the
\* empty list (evidence_models.py:82-85): controls with 0..MaxReqs patterns
\* stand beside the shipped catalogue.
OtherControl(k) ==
  [id |-> "CTRL-X-" \o ToString(k), article |-> "Article X",
   title |-> "Control with " \o ToString(k) \o " requirements",
   evidence_requirements |-> [i \in 1..k |-> "pattern" \o ToString(i)],
   priority |-> "low"]

Controls == Range(ALL_CONTROLS) \cup {OtherControl(k) : k \in 0..MaxReqs}

EvidenceList(c, n) ==
  [i \in 1..n |->
     Evidence(<<0, c.id, i>>, "scan-0", c.id, "file",
              <<"file" \o ToString(i)>>, <<>>, Ratio(1, 1), {})]

InitFinding ==
  /\ control \in Controls
  /\ evidence_items \in {EvidenceList(control, n) : n \in 0..MaxEvidence}
  /\ finding = NoFinding
  /\ ClassifierIdle
  /\ ScannerIdle
  /\ CheckerIdle
  /\ CoverageIdle
  /\ ServerIdle
  /\ WorkerIdle

\* One call of _create_finding on the control and the evidence list.
CreateFinding ==
  /\ finding = NoFinding
  /\ finding' = synthesize("scan-0", control, evidence_items)
  /\ UNCHANGED <<control, evidence_items, classifier_vars, scanner_vars,
                 checker_vars, coverage_vars,
                 server_vars, worker_vars>>

NextFinding == CreateFinding

SpecFinding == InitFinding /\ [][NextFinding]_vars

\* ---- inputs of the scanner
\* Files an uploaded repository may hold.
ScanFiles ==
  { File(<<>>, <<"R","E","A","D","M","E",".","m","d">>, <<"S","y","s","t","e","m"," ","o","v","e","r","v","i","e","w">>),
    File(<<<<".","g","i","t","h","u","b">>, <<"w","o","r","k","f","l","o","w","s">>>>, <<"c","i",".","y","m","l">>, <<"o","n",":"," ","p","u","s","h">>),
    File(<<>>, <<".","g","i","t","l","a","b","-","c","i",".","y","m","l">>, <<"s","t","a","g","e","s">>),
    File(<<>>, <<"a","p","p",".","p","y">>, <<"p","a","s","s","w","o","r","d"," ","="," ","'","x","'">>),
    File(<<>>, <<"a","u","d","i","t","_","l","o","g",".","p","y">>, <<"i","m","p","o","r","t"," ","l","o","g","g","i","n","g">>),
    File(<<>>, <<"r","e","q","u","i","r","e","m","e","n","t","s",".","t","x","t">>, <<"f","l","a","s","k">>),
    File(<<>>, <<"C","H","A","N","G","E","L","O","G",".","m","d">>, <<"v","1">>),
    File(<<>>, <<"p","a","c","k","a","g","e",".","j","s","o","n">>, <<"v","e","r","s","i","o","n">>),
    File(<<<<"d","o","c","s">>>>, <<"a","r","c","h","i","t","e","c","t","u","r","e",".","p","n","g">>, <<"p","n","g">>),
    File(<<<<"d","o","c","s">>>>, <<"o","v","e","r","v","i","e","w",".","m","d">>, <<"d","o","c","s">>),
    File(<<>>, <<"l","o","g","g","e","r",".","p","y">>, <<"i","m","p","o","r","t"," ","l","o","g","g","i","n","g">>),
    File(<<<<".","g","i","t">>>>, <<"c","o","n","f","i","g">>, <<"[","c","o","r","e","]">>),
    File(<<<<"n","o","d","e","_","m","o","d","u","l","e","s">>>>, <<"l","o","g","g","e","r",".","p","y">>, <<"i","m","p","o","r","t"," ","l","o","g","g","i","n","g">>) }

\* Trees in which more files match a collector than it keeps: five logging
\* candidates, four version files, four audit-trail modules, four system
\* documents, six diagrams and six CI configurations.
CapTrees ==
  [logging |->
     { File(<<>>, <<"l","o","g","g","i","n","g",".","c","o","n","f">>, <<"[","l","o","g","g","e","r","s","]">>),
       File(<<>>, <<"l","o","g","g","i","n","g",".","i","n","i">>, <<"[","l","o","g","g","e","r","s","]">>),
       File(<<>>, <<"l","o","g","g","i","n","g",".","y","a","m","l">>, <<"v","e","r","s","i","o","n",":"," ","1">>),
       File(<<>>, <<"l","o","g","g","i","n","g",".","j","s","o","n">>, <<"{","}">>),
       File(<<>>, <<"a","u","d","i","t","_","l","o","g",".","p","y">>, <<"i","m","p","o","r","t"," ","l","o","g","g","i","n","g">>) },
   version |->
     { File(<<>>, <<"V","E","R","S","I","O","N">>, <<"1",".","0">>),
       File(<<>>, <<"v","e","r","s","i","o","n",".","t","x","t">>, <<"1",".","0">>),
       File(<<>>, <<"C","H","A","N","G","E","L","O","G",".","m","d">>, <<"v","1">>),
       File(<<>>, <<"p","a","c","k","a","g","e",".","j","s","o","n">>, <<"v","e","r","s","i","o","n">>) },
   audit |->
     { File(<<>>, <<"a","u","d","i","t","_","l","o","g",".","p","y">>, <<"i","m","p","o","r","t"," ","l","o","g","g","i","n","g">>),
       File(<<>>, <<"l","o","g","g","e","r",".","p","y">>, <<"i","m","p","o","r","t"," ","l","o","g","g","i","n","g">>),
       File(<<>>, <<"t","r","a","c","k","e","r",".","p","y">>, <<"i","m","p","o","r","t"," ","l","o","g","g","i","n","g">>),
       File(<<>>, <<"r","e","c","o","r","d","e","r",".","p","y">>, <<"l","o","g"," ","="," ","[","]">>) },
   system_docs |->
     { File(<<>>, <<"R","E","A","D","M","E",".","m","d">>, <<"S","y","s","t","e","m"," ","o","v","e","r","v","i","e","w">>),
       File(<<<<"d","o","c","s">>>>, <<"s","y","s","t","e","m",".","m","d">>, <<"d","o","c","s">>),
       File(<<<<"d","o","c","s">>>>, <<"o","v","e","r","v","i","e","w",".","m","d">>, <<"d","o","c","s">>),
       File(<<<<"d","o","c","s">>>>, <<"a","r","c","h","i","t","e","c","t","u","r","e",".","m","d">>, <<"d","o","c","s">>) },
   diagrams |->
     { File(<<<<"d","o","c","s">>>>, <<"a","r","c","h","i","t","e","c","t","u","r","e",".","p","n","g">>, <<"p","n","g">>),
       File(<<<<"d","o","c","s">>>>, <<"f","l","o","w",".","p","n","g">>, <<"p","n","g">>),
       File(<<<<"d","o","c","s">>>>, <<"s","y","s","t","e","m",".","s","v","g">>, <<"s","v","g">>),
       File(<<<<"d","o","c","s">>>>, <<"d","e","s","i","g","n",".","j","p","g">>, <<"j","p","g">>),
       File(<<>>, <<"d","i","a","g","r","a","m",".","p","n","g">>, <<"p","n","g">>),
       File(<<>>, <<"d","e","s","i","g","n",".","s","v","g">>, <<"s","v","g">>) },
   ci |->
     { File(<<<<".","g","i","t","h","u","b">>, <<"w","o","r","k","f","l","o","w","s">>>>, <<"c","i",".","y","m","l">>, <<"o","n",":"," ","p","u","s","h">>),
       File(<<<<".","g","i","t","h","u","b">>, <<"w","o","r","k","f","l","o","w","s">>>>, <<"t","e","s","t",".","y","m","l">>, <<"o","n",":"," ","p","u","s","h">>),
       File(<<<<".","g","i","t","h","u","b">>, <<"w","o","r","k","f","l","o","w","s">>>>, <<"l","i","n","t",".","y","m","l">>, <<"o","n",":"," ","p","u","s","h">>),
       File(<<<<".","g","i","t","h","u","b">>, <<"w","o","r","k","f","l","o","w","s">>>>, <<"d","e","p","l","o","y",".","y","m","l">>, <<"o","n",":"," ","p","u","s","h">>),
       File(<<>>, <<".","g","i","t","l","a","b","-","c","i",".","y","m","l">>, <<"s","t","a","g","e","s">>),
       File(<<<<".","c","i","r","c","l","e","c","i">>>>, <<"c","o","n","f","i","g",".","y","m","l">>, <<"v","e","r","s","i","o","n",":"," ","2">>) }]

\* The calls of scan() followed on one instance: MaxScans, and one on the
\* trees above, where each listing order gives another selection.
ScanBudget(tree) ==
  IF tree \in Range(CapTrees) THEN 1 ELSE MaxScans

Trees(files, k) == {t \in SUBSET files : Cardinality(t) <= k}

InitScan ==
  /\ repo \in Trees(ScanFiles, MaxFiles) \cup Range(CapTrees)
  /\ scan_id = "scan-1"
  /\ evidence_list = <<>>
  /\ findings_list = <<>>
  /\ calls = 0
  /\ scan_raised = FALSE
  /\ ClassifierIdle
  /\ SynthesizerIdle
  /\ CheckerIdle
  /\ CoverageIdle
  /\ ServerIdle
  /\ WorkerIdle

\* One call of RepoScanner.scan on the instance.  The file system lists
\* the entries of the tree in an order of its own.
Scan ==
  /\ calls < ScanBudget(repo)
  /\ ~scan_raised
  /\ \E listing \in DirectoryOrders(repo) :
       LET st == scan([evidence_list |-> evidence_list,
                       findings_list |-> findings_list,
                       raised |-> FALSE],
                      scan_id, calls + 1, listing)
       IN  /\ evidence_list' = st.evidence_list
           /\ findings_list' = st.findings_list
           /\ scan_raised' = st.raised
  /\ calls' = calls + 1
  /\ UNCHANGED <<repo, scan_id, classifier_vars, synthesizer_vars,
                 checker_vars, coverage_vars,
                 server_vars, worker_vars>>

NextScan == Scan

SpecScan == InitScan /\ [][NextScan]_vars

\* ---- inputs of the compliance checker
\* Required elements of one article, the first k of its list, as a
\* sentence: "Automatic logging, event recording".
Capitalize(t) ==
  IF t = <<>> THEN t
  ELSE LET up == {i \in DOMAIN UpperCase : LowerCase[i] = Head(t)}
       IN  IF up = {} THEN t
           ELSE <<UpperCase[CHOOSE i \in up : TRUE]>> \o Tail(t)

ElementSentence(article, k) ==
  Capitalize(Join(<<","," ">>, SubSeq(article.required_elements, 1, k)))

DescriptionTexts ==
  {<<>>} \cup
  UNION { { ElementSentence(COMPLIANCE_REQUIREMENTS[a], k) :
              k \in 1..Len(COMPLIANCE_REQUIREMENTS[a].required_elements) } :
          a \in DOMAIN COMPLIANCE_REQUIREMENTS }

RiskManagementTexts == {<<>>, <<"F","a","i","r","n","e","s","s"," ","r","e","v","i","e","w">>}

DocumentTexts ==
  { ElementSentence(COMPLIANCE_REQUIREMENTS[6], 4) \o <<";"," ">>
      \o ElementSentence(COMPLIANCE_REQUIREMENTS[7], 2),
    <<"W","e"," ","i","d","e","n","t","i","f","y"," ","r","i","s","k","s"," ","i","n"," ","t","h","e"," ","D","a","t","a","s","e","t">> }

\* The keys of a compliance scan request: those parse_metadata reads.
RequestKeys ==
  << <<"s","y","s","t","e","m","_","n","a","m","e">>, <<"d","e","s","c","r","i","p","t","i","o","n">>, <<"u","s","e","_","c","a","s","e">>, <<"a","p","p","l","i","c","a","t","i","o","n","_","d","o","m","a","i","n">>,
     <<"m","o","d","e","l","_","t","y","p","e">>, <<"p","r","o","v","i","d","e","r">>, <<"v","e","r","s","i","o","n">>, <<"r","i","s","k","_","m","a","n","a","g","e","m","e","n","t">>,
     <<"d","a","t","a","_","g","o","v","e","r","n","a","n","c","e">>, <<"t","e","c","h","n","i","c","a","l","_","d","o","c","s">>, <<"t","e","s","t","i","n","g","_","p","r","o","c","e","d","u","r","e","s">>,
     <<"h","u","m","a","n","_","o","v","e","r","s","i","g","h","t">>, <<"a","c","c","u","r","a","c","y","_","m","e","t","r","i","c","s">> >>

\* A raw metadata dict: description and risk_management as given; the
\* other keys are present with the empty string (full) or absent.
MakeRawMetadata(description, risk_management, full) ==
  LET value(k) == IF k = <<"d","e","s","c","r","i","p","t","i","o","n">> THEN description
                  ELSE IF k = <<"r","i","s","k","_","m","a","n","a","g","e","m","e","n","t">> THEN risk_management
                  ELSE <<>>
      keys == SelectSeq(RequestKeys, LAMBDA k : full \/ value(k) # <<>>)
  IN  [i \in DOMAIN keys |-> Entry(keys[i], StrValue(value(keys[i])))]

RawMetadataInputs ==
  { MakeRawMetadata(d, r, full) :
      d \in DescriptionTexts, r \in RiskManagementTexts, full \in BOOLEAN }

\* documents: None, or a list of at most MaxDocs texts.
DocumentInputs ==
  {PyNone} \cup UNION { [1..k -> DocumentTexts] : k \in 0..MaxDocs }

InitCheck ==
  /\ raw_metadata \in RawMetadataInputs
  /\ documents \in DocumentInputs
  /\ parsed_metadata = <<>>
  /\ compliance_result = [articles |-> <<>>]
  /\ ClassifierIdle
  /\ SynthesizerIdle
  /\ ScannerIdle
  /\ CoverageIdle
  /\ ServerIdle
  /\ WorkerIdle

\* A call of ComplianceChecker.check_compliance on the metadata as given.
CheckCompliance ==
  /\ compliance_result = [articles |-> <<>>]
  /\ compliance_result' = check_compliance(raw_metadata, documents)
  /\ UNCHANGED <<raw_metadata, documents, parsed_metadata, classifier_vars,
                 synthesizer_vars, scanner_vars, coverage_vars,
                 server_vars, worker_vars>>

\* cli.py, lines 106-108: the metadata goes through parse_metadata and
\* check_compliance is called without documents.
ParseAndCheck ==
  /\ compliance_result = [articles |-> <<>>]
  /\ documents = PyNone
  /\ parsed_metadata' = parse_metadata(raw_metadata)
  /\ compliance_result' = check_compliance(parsed_metadata', PyNone)
  /\ UNCHANGED <<raw_metadata, documents, classifier_vars,
                 synthesizer_vars, scanner_vars, coverage_vars,
                 server_vars, worker_vars>>

NextCheck == CheckCompliance \/ ParseAndCheck

SpecCheck == InitCheck /\ [][NextCheck]_vars

\* ---- inputs of calculate_coverage
\* Finding.status is any member of FindingStatus; Finding.article is the
\* article of the control.
FindingStatus == <<"compliant", "partial", "non_compliant", "not_applicable">>

FindingShapes ==
  LET controls == <<get_control_by_id("CTRL-011-001"),
                    get_control_by_id("CTRL-012-001")>>
  IN  [k \in 1..(Len(controls) * Len(FindingStatus)) |->
         LET c == controls[((k - 1) \div Len(FindingStatus)) + 1]
         IN  [control_id |-> c.id, article |-> c.article,
              status |-> FindingStatus[((k - 1) % Len(FindingStatus)) + 1]]]

\* Eight findings of one article, one of them partial: the coverage is
\* 6.25 per cent, half way between two one-decimal values.
EightFindings ==
  LET c == get_control_by_id("CTRL-015-003")
  IN  [i \in 1..8 |->
         [control_id |-> c.id, article |-> c.article,
          status |-> IF i = 3 THEN "partial" ELSE "non_compliant"]]

\* Each collection of at most MaxFindings findings, in one order; Reorder
\* gives the other orders for the later calls.
FindingsInputs ==
  {EightFindings} \cup
  UNION { { [i \in 1..k |-> FindingShapes[p[i]]] :
              p \in {q \in [1..k -> DOMAIN FindingShapes] :
                       \A i \in 1..(k - 1) : q[i] <= q[i + 1]} } :
          k \in 0..MaxFindings }

Reorderings(list) ==
  { [i \in DOMAIN list |-> list[p[i]]] : p \in Orderings(DOMAIN list) }

InitCoverage ==
  /\ findings \in FindingsInputs
  /\ coverage = <<>>
  /\ ClassifierIdle
  /\ SynthesizerIdle
  /\ ScannerIdle
  /\ CheckerIdle
  /\ ServerIdle
  /\ WorkerIdle

\* One call of calculate_coverage on the list; the call and its result
\* are appended to the record of calls.
CalculateCoverage ==
  /\ Len(coverage) < MaxCoverageCalls
  /\ coverage' = Append(coverage, [findings |-> findings,
                                   stats |-> calculate_coverage(findings)])
  /\ UNCHANGED <<findings, classifier_vars, synthesizer_vars, scanner_vars,
                 checker_vars,
                 server_vars, worker_vars>>

\* After a call the caller puts the same findings in another order.  The
\* calls made so far were all on the list as it is now.
Reorder ==
  /\ Len(findings) <= MaxFindings
  /\ coverage # <<>>
  /\ \A i \in DOMAIN coverage : coverage[i].findings = findings
  /\ findings' \in Reorderings(findings) \ {findings}
  /\ UNCHANGED <<coverage, classifier_vars, synthesizer_vars, scanner_vars,
                 checker_vars,
                 server_vars, worker_vars>>

NextCoverage == CalculateCoverage \/ Reorder

SpecCoverage == InitCoverage /\ [][NextCoverage]_vars

\* ---- inputs of the scan endpoints
\* A multipart request to POST /compliance/scan/repo: the form field that
\* carries the upload, its file name, whether its bytes are a zip archive,
\* and the tree in the archive.
UploadInputs ==
  [field : {"file", "zip_file"},
   filename : {<<"r","e","p","o",".","z","i","p">>, <<"t","e","s","t",".","t","x","t">>, <<"r","e","p","o",".","z","i","p",".","b","a","k">>},
   is_zip : BOOLEAN,
   tree : Trees(ScanFiles, 1)]

InitServer ==
  /\ upload \in UploadInputs
  /\ post_pc = "received"
  /\ post_status = 0
  /\ scanner_runs = 0
  /\ scan_output = [evidence_list |-> <<>>, findings_list |-> <<>>]
  /\ db = EmptyDb
  /\ get_pc = "idle"
  /\ get_scan = [id |-> "none"]
  /\ get_response = NoResponse
  /\ reads = 0
  /\ ClassifierIdle
  /\ SynthesizerIdle
  /\ ScannerIdle
  /\ CheckerIdle
  /\ CoverageIdle
  /\ WorkerIdle

\* file: UploadFile = File(...), lines 308-312: a request without the
\* required form field "file" is answered 422 before the handler runs.
RequestValidation ==
  /\ post_pc = "received"
  /\ upload.field # "file"
  /\ post_status' = 422
  /\ post_pc' = "done"
  /\ UNCHANGED <<upload, scanner_runs, scan_output, db, reader_vars, engine_vars, worker_vars>>

\* lines 316-317: HTTPException(400) unless the name ends in .zip
RejectNotZip ==
  /\ post_pc = "received"
  /\ upload.field = "file"
  /\ ~EndsWith(upload.filename, <<".","z","i","p">>)
  /\ post_status' = 400
  /\ post_pc' = "done"
  /\ UNCHANGED <<upload, scanner_runs, scan_output, db, reader_vars, engine_vars, worker_vars>>

\* lines 319-352: the upload is saved and extracted, the scanner runs, the
\* coverage and the EvidenceScan are built.  Bytes that are not a zip
\* archive make extract_zip_to_temp raise, which lines 383-387 answer 500.
RunScanner ==
  /\ post_pc = "received"
  /\ upload.field = "file"
  /\ EndsWith(upload.filename, <<".","z","i","p">>)
  /\ IF upload.is_zip
       THEN /\ \E listing \in DirectoryOrders(upload.tree) :
                 LET st == scan([evidence_list |-> <<>>, findings_list |-> <<>>,
                                 raised |-> FALSE], ServerScanId, 1, listing)
                 IN  scan_output' =
                       [evidence_list |-> st.evidence_list,
                        findings_list |-> st.findings_list,
                        scan_dict |-> EvidenceScan("system", upload.filename,
                                                   st.evidence_list, st.findings_list)]
            /\ scanner_runs' = scanner_runs + 1
            /\ post_pc' = "scanned"
            /\ UNCHANGED post_status
       ELSE /\ post_status' = 500
            /\ post_pc' = "done"
            /\ UNCHANGED <<scanner_runs, scan_output>>
  /\ UNCHANGED <<upload, db, reader_vars, engine_vars, worker_vars>>

\* lines 354-358: await db.evidence_scans.insert_one(scan_dict)
InsertScan ==
  /\ post_pc = "scanned"
  /\ db' = [db EXCEPT !.evidence_scans = Append(@, scan_output.scan_dict)]
  /\ post_pc' = "storing"
  /\ UNCHANGED <<upload, post_status, scanner_runs, scan_output, reader_vars, engine_vars, worker_vars>>

\* lines 360-364: one await db.evidence.insert_one per Evidence
InsertEvidence ==
  /\ post_pc = "storing"
  /\ Len(db.evidence) < Len(scan_output.evidence_list)
  /\ db' = [db EXCEPT !.evidence =
              Append(@, scan_output.evidence_list[Len(db.evidence) + 1])]
  /\ UNCHANGED <<upload, post_pc, post_status, scanner_runs, scan_output, reader_vars, engine_vars, worker_vars>>

\* lines 366-370: one await db.findings.insert_one per Finding
InsertFinding ==
  /\ post_pc = "storing"
  /\ Len(db.evidence) = Len(scan_output.evidence_list)
  /\ Len(db.findings) < Len(scan_output.findings_list)
  /\ db' = [db EXCEPT !.findings =
              Append(@, scan_output.findings_list[Len(db.findings) + 1])]
  /\ UNCHANGED <<upload, post_pc, post_status, scanner_runs, scan_output, reader_vars, engine_vars, worker_vars>>

\* lines 372-381: cleanup and the response
Respond ==
  /\ post_pc = "storing"
  /\ Len(db.evidence) = Len(scan_output.evidence_list)
  /\ Len(db.findings) = Len(scan_output.findings_list)
  /\ post_status' = 200
  /\ post_pc' = "done"
  /\ UNCHANGED <<upload, scanner_runs, scan_output, db, reader_vars, engine_vars, worker_vars>>

\* lines 383-387: an insert_one that raises (the database is unreachable,
\* the request is cancelled) ends the request with 500; what was inserted
\* before stays.
InsertRaises ==
  /\ post_pc \in {"scanned", "storing"}
  /\ \/ post_pc = "scanned"
     \/ Len(db.evidence) < Len(scan_output.evidence_list)
     \/ Len(db.findings) < Len(scan_output.findings_list)
  /\ post_status' = 500
  /\ post_pc' = "done"
  /\ UNCHANGED <<upload, scanner_runs, scan_output, db, reader_vars, engine_vars, worker_vars>>

\* get_repo_scan_result, lines 395-397: find_one on evidence_scans, 404
\* without a hit.
FindScan ==
  /\ get_pc = "idle"
  /\ reads < MaxReads
  /\ LET hits == SelectSeq(db.evidence_scans, LAMBDA s : s.id = ServerScanId)
     IN  IF hits = <<>>
           THEN /\ get_response' = [status |-> 404]
                /\ reads' = reads + 1
                /\ UNCHANGED <<get_pc, get_scan>>
           ELSE /\ get_scan' = hits[1]
                /\ get_pc' = "scan read"
                /\ UNCHANGED <<get_response, reads>>
  /\ UNCHANGED <<upload, post_pc, post_status, scanner_runs, scan_output, db, engine_vars, worker_vars>>

\* lines 405-440: the findings stored under the scan id, grouped by
\* article, and the response.
FindFindings ==
  /\ get_pc = "scan read"
  /\ LET found == Take(SelectSeq(db.findings,
                                 LAMBDA f : f.scan_id = ServerScanId), 100)
         articles == ArticlesInOrder(found)
     IN  get_response' =
           [status |-> 200,
            scan |-> get_scan,
            findings_by_article |->
              [i \in DOMAIN articles |->
                 [key |-> articles[i],
                  value |-> SelectSeq(found, LAMBDA f : f.article = articles[i])]],
            checked |-> Len(found)]
  /\ get_pc' = "idle"
  /\ reads' = reads + 1
  /\ UNCHANGED <<upload, post_pc, post_status, scanner_runs, scan_output, db, get_scan, engine_vars, worker_vars>>

NextServer ==
  \/ RequestValidation \/ RejectNotZip \/ RunScanner
  \/ InsertScan \/ InsertEvidence \/ InsertFinding \/ Respond \/ InsertRaises
  \/ FindScan \/ FindFindings

SpecServer == InitServer /\ [][NextServer]_vars

\* ---- inputs of the analyzer tasks
Rules == [run_pip_audit |-> "deps", run_bandit |-> "bandit",
          run_onnx_meta |-> "onnx_meta", run_dataset_sanity |-> "dataset_sanity"]

\* What subprocess.run(..., timeout=60) can end in: the tool's output (JSON
\* with so many findings of high and of medium severity, or text that is
\* no JSON), TimeoutExpired after 60 seconds, or another exception (the
\* tool is not installed, the output cannot be written).
ToolOutcomes ==
  [kind : {"completed"}, json : BOOLEAN, high : 0..MaxIssues, medium : 0..MaxIssues]
    \cup [kind : {"timeout", "raised"}, json : {FALSE}, high : {0}, medium : {0}]

\* What the library calls of run_onnx_meta and run_dataset_sanity can end
\* in: a result with so many issues, or an exception.
LibraryOutcomes ==
  [kind : {"completed"}, json : {TRUE}, high : 0..MaxIssues, medium : {0}]
    \cup [kind : {"raised"}, json : {FALSE}, high : {0}, medium : {0}]

InitWorker ==
  /\ task \in [name : DOMAIN Rules, input_found : BOOLEAN]
  /\ worker_pc = "queued"
  /\ analysis = NoAnalysis
  /\ to_save = NoTask
  /\ in_handler = FALSE
  /\ stored = <<>>
  /\ ClassifierIdle
  /\ SynthesizerIdle
  /\ ScannerIdle
  /\ CheckerIdle
  /\ CoverageIdle
  /\ ServerIdle

\* The try body of a task up to its call of save_evidence_sync, or the
\* except clause it ends in: the Evidence built.
Analyzed(outcome, evidence) ==
  /\ analysis' = outcome
  /\ to_save' = evidence
  /\ in_handler' = (outcome.kind # "completed" /\ outcome.kind # "no input")
  /\ worker_pc' = "saving"
  /\ UNCHANGED <<task, stored, server_vars, engine_vars>>

NoInput == [kind |-> "no input", json |-> FALSE, high |-> 0, medium |-> 0]

\* run_pip_audit, lines 52-143
RunPipAudit ==
  /\ worker_pc = "queued"
  /\ task.name = "run_pip_audit"
  /\ IF ~task.input_found
       THEN Analyzed(NoInput, WorkerEvidence("deps", "warn", "No requirements.txt found"))
       ELSE \E out \in ToolOutcomes :
              LET critical_count == IF out.json THEN out.high ELSE 0
              IN  Analyzed(out,
                    CASE out.kind = "timeout" -> error_evidence("deps", "pip-audit timed out")
                      [] out.kind = "raised" -> error_evidence("deps", "Error")
                      [] OTHER ->
                           IF critical_count > 0
                             THEN WorkerEvidence("deps", "fail", "Found packages with vulnerabilities")
                             ELSE WorkerEvidence("deps", "pass", "No vulnerabilities found"))

\* run_bandit, lines 146-221
RunBandit ==
  /\ worker_pc = "queued"
  /\ task.name = "run_bandit"
  /\ \E out \in ToolOutcomes :
       LET high_severity == IF out.json THEN out.high ELSE 0
           medium_severity == IF out.json THEN out.medium ELSE 0
       IN  Analyzed(out,
             IF out.kind # "completed" THEN error_evidence("bandit", "Error")
             ELSE IF high_severity > 0
               THEN WorkerEvidence("bandit", "fail", "Found high severity security issues")
             ELSE IF medium_severity > 0
               THEN WorkerEvidence("bandit", "warn", "Found medium severity security issues")
             ELSE WorkerEvidence("bandit", "pass", "No security issues found"))

\* run_onnx_meta, lines 224-296
RunOnnxMeta ==
  /\ worker_pc = "queued"
  /\ task.name = "run_onnx_meta"
  /\ \/ \E out \in {o \in LibraryOutcomes : o.kind = "raised"} :
          Analyzed(out, error_evidence("onnx_meta", "Error"))
     \/ /\ ~task.input_found
        /\ Analyzed(NoInput, WorkerEvidence("onnx_meta", "warn", "No ONNX model found"))
     \/ /\ task.input_found
        /\ \E out \in {o \in LibraryOutcomes : o.kind = "completed" /\ o.high = 0} :
             Analyzed(out, WorkerEvidence("onnx_meta", "pass", "Model"))

\* run_dataset_sanity, lines 299-406
RunDatasetSanity ==
  /\ worker_pc = "queued"
  /\ task.name = "run_dataset_sanity"
  /\ \/ \E out \in {o \in LibraryOutcomes : o.kind = "raised"} :
          Analyzed(out, error_evidence("dataset_sanity", "Error"))
     \/ /\ ~task.input_found
        /\ Analyzed(NoInput, WorkerEvidence("dataset_sanity", "warn", "No dataset file found"))
     \/ /\ task.input_found
        /\ \E out \in {o \in LibraryOutcomes : o.kind = "completed"} :
             Analyzed(out,
               IF out.high > 0
                 THEN WorkerEvidence("dataset_sanity", "fail", "issues")
                 ELSE WorkerEvidence("dataset_sanity", "pass", "Dataset quality checks passed"))

\* save_evidence_sync, lines 38-49, inserts the Evidence; the task returns.
SaveEvidence ==
  /\ worker_pc = "saving"
  /\ stored' = Append(stored, to_save)
  /\ worker_pc' = "returned"
  /\ UNCHANGED <<task, analysis, to_save, in_handler, server_vars, engine_vars>>

\* save_evidence_sync raises (the database is unreachable): in the try
\* body the except Exception clause builds the error Evidence and saves
\* again; in an except clause the exception leaves the task.
SaveRaises ==
  /\ worker_pc = "saving"
  /\ IF in_handler
       THEN /\ worker_pc' = "failed"
            /\ UNCHANGED <<to_save, in_handler>>
       ELSE /\ to_save' = error_evidence(Rules[task.name], "Error")
            /\ in_handler' = TRUE
            /\ UNCHANGED worker_pc
  /\ UNCHANGED <<task, analysis, stored, server_vars, engine_vars>>

NextWorker ==
  \/ RunPipAudit \/ RunBandit \/ RunOnnxMeta \/ RunDatasetSanity
  \/ SaveEvidence \/ SaveRaises

\* Celery runs a queued task, and a running task takes its next step.
SpecWorker ==
  InitWorker /\ [][NextWorker]_vars /\ WF_vars(NextWorker)

\* ---- the whole engine
Init ==
  \/ InitClassify \/ InitFinding \/ InitScan \/ InitCheck \/ InitCoverage
  \/ InitServer \/ InitWorker

Next ==
  \/ Classify \/ CreateFinding \/ Scan
  \/ CheckCompliance \/ ParseAndCheck
  \/ CalculateCoverage \/ Reorder
  \/ NextServer \/ NextWorker

Spec == Init /\ [][Next]_vars

\* ------------------------------------------------ claims: risk classifier
Classified == risk # NoResult

\* The text the claims speak of: the three fields, lower-cased, joined.
ClaimText ==
  Lower(Get(metadata, "description")) \o Space
    \o Lower(Get(metadata, "use_case")) \o Space
    \o Lower(Get(metadata, "application_domain"))

Tiers == {"prohibited", "high", "limited", "minimal"}

HighRiskKeywordsOf(cat) ==
  UNION {Range(HIGH_RISK_CATEGORIES[i].keywords) :
           i \in {j \in DOMAIN HIGH_RISK_CATEGORIES :
                    HIGH_RISK_CATEGORIES[j].category = cat}}

HighRiskCategoryNames ==
  {HIGH_RISK_CATEGORIES[i].category : i \in DOMAIN HIGH_RISK_CATEGORIES}

AllHighRiskKeywords ==
  UNION {HighRiskKeywordsOf(c) : c \in HighRiskCategoryNames}

\* What occurs in the text t.
Occurring(keywords, t) == {kw \in keywords : Contains(kw, t)}

CategoriesIn(t) ==
  {c \in HighRiskCategoryNames : Occurring(HighRiskKeywordsOf(c), t) # {}}

\* The limited-risk keywords as the claim lists them.
ClaimLimitedKeywords ==
  { <<"c","h","a","t","b","o","t">>,
    <<"d","e","e","p","f","a","k","e">>,
    <<"e","m","o","t","i","o","n"," ","r","e","c","o","g","n","i","t","i","o","n">>,
    <<"b","i","o","m","e","t","r","i","c"," ","c","a","t","e","g","o","r","i","z","a","t","i","o","n">> }

\* A list that names each element of S exactly once.
ListsExactly(list, S) ==
  /\ Range(list) = S
  /\ Len(list) = Cardinality(S)

Returned == "risk_level" \in DOMAIN risk /\ risk.risk_level \in Tiers

ProhibitedIn(t) == Occurring(Range(PROHIBITED_KEYWORDS), t)

HighRiskIn(t) == Occurring(AllHighRiskKeywords, t)

LimitedIn(t) == Occurring(ClaimLimitedKeywords, t)

\* C1: classify returns exactly one of the four tiers, chosen in strict
\* priority order: prohibited whenever a prohibited keyword occurs, high
\* only when none does, limited only when neither a prohibited nor a
\* high-risk keyword occurs, minimal otherwise.
C1_TierPriority ==
  LET t == ClaimText
      P == ProhibitedIn(t)
      H == HighRiskIn(t)
      L == LimitedIn(t)
  IN  Classified =>
        /\ Returned
        /\ (risk.risk_level = "prohibited") <=> (P # {})
        /\ (risk.risk_level = "high") <=> (P = {} /\ H # {})
        /\ (risk.risk_level = "limited") <=> (P = {} /\ H = {} /\ L # {})
        /\ (risk.risk_level = "minimal") <=> (P = {} /\ H = {} /\ L = {})

\* A text with a prohibited and a high-risk keyword was classified.
C1_Witness ==
  LET t == ClaimText
  IN  /\ Classified
      /\ ProhibitedIn(t) # {}
      /\ HighRiskIn(t) # {}
      /\ risk.risk_level = "prohibited"

\* C2: when a prohibited keyword occurs in the text the result is
\* prohibited, cites Article 5 and lists exactly the prohibited keywords
\* that occur, each once.
C2_ProhibitedResult ==
  LET P == ProhibitedIn(ClaimText)
  IN  (Classified /\ P # {}) =>
        /\ Returned
        /\ risk.risk_level = "prohibited"
        /\ risk.article_reference = "Article 5"
        /\ ListsExactly(risk.matched_terms, P)

\* Two different prohibited keywords were matched in one call.
C2_Witness ==
  /\ Classified
  /\ Cardinality(ProhibitedIn(ClaimText)) >= 2
  /\ risk.risk_level = "prohibited"

\* C3: with no prohibited keyword and at least one high-risk keyword the
\* result is high, cites Article 6 & Annex III, lists each category that
\* has a matching keyword exactly once and lists every matching keyword.
C3_HighResult ==
  LET t == ClaimText
      H == HighRiskIn(t)
  IN  (Classified /\ ProhibitedIn(t) = {} /\ H # {}) =>
        /\ Returned
        /\ risk.risk_level = "high"
        /\ risk.article_reference = "Article 6 & Annex III"
        /\ ListsExactly(risk.matched_categories, CategoriesIn(t))
        /\ Range(risk.matched_terms) = H

\* Two keywords of the same category matched: the category is listed once.
C3_Witness ==
  LET t == ClaimText
  IN  /\ Classified
      /\ ProhibitedIn(t) = {}
      /\ Cardinality(HighRiskIn(t)) = 2
      /\ CategoriesIn(t) = {"employment"}
      /\ risk.risk_level = "high"

\* C4: with a limited-risk keyword and no prohibited or high-risk keyword
\* the result is limited, cites Article 52 and lists the limited-risk
\* keywords found.
C4_LimitedResult ==
  LET t == ClaimText
      L == LimitedIn(t)
  IN  (Classified /\ ProhibitedIn(t) = {} /\ HighRiskIn(t) = {} /\ L # {}) =>
        /\ Returned
        /\ risk.risk_level = "limited"
        /\ risk.article_reference = "Article 52"
        /\ ListsExactly(risk.matched_terms, L)

\* A text with limited-risk keywords only was classified.
C4_Witness ==
  LET t == ClaimText
  IN  /\ Classified
      /\ ProhibitedIn(t) = {}
      /\ HighRiskIn(t) = {}
      /\ LimitedIn(t) # {}
      /\ risk.risk_level = "limited"

\* C5: with all three fields missing or empty, and whenever no keyword of
\* any list occurs, classify does not fail and returns minimal with no
\* matched terms and article reference N/A.
C5_MinimalDefault ==
  LET t == ClaimText
  IN  (Classified /\ ProhibitedIn(t) = {} /\ HighRiskIn(t) = {}
         /\ LimitedIn(t) = {}) =>
        /\ Returned
        /\ risk.risk_level = "minimal"
        /\ risk.matched_terms = <<>>
        /\ risk.article_reference = "N/A"

\* A dict with none of the three keys was classified.
C5_Witness ==
  /\ Classified
  /\ DOMAIN metadata = {}
  /\ risk.risk_level = "minimal"

\* --------------------------------------------- claims: finding synthesizer
Synthesized == finding # NoFinding

\* _create_finding returned a Finding (it did not raise).
ReturnedFinding == "status" \in DOMAIN finding

NumEvidence == Len(evidence_items)

NumReqs == Len(control.evidence_requirements)

FirstReqs(k) ==
  SubSeq(control.evidence_requirements, 1, Min(k, NumReqs))

\* C6: for every control and an empty evidence list the finding is
\* non_compliant with confidence 0.0 and evidence_count 0, and has exactly
\* one gap, whose recommendation cites the first three (or fewer, if the
\* control declares fewer) evidence requirements.
C6_EmptyEvidence ==
  (Synthesized /\ NumEvidence = 0) =>
    /\ ReturnedFinding
    /\ finding.status = "non_compliant"
    /\ RatEq(finding.confidence, Ratio(0, 1))
    /\ finding.evidence_count = 0
    /\ Len(finding.gaps) = 1
    /\ finding.gaps[1].recommendation.joined = FirstReqs(3)
    /\ finding.recommendation = finding.gaps[1].recommendation

\* No evidence for a control with more than three requirements.
C6_Witness ==
  /\ Synthesized
  /\ NumEvidence = 0
  /\ NumReqs > 3
  /\ finding.status = "non_compliant"

\* C7: for a control with r requirements and a non-empty evidence list of
\* length n >= 0.5*r the finding is compliant with confidence
\* min(1.0, n/r), no gaps and recommendation "Control satisfied".
C7_GoodCoverage ==
  (Synthesized /\ NumEvidence >= 1 /\ 2 * NumEvidence >= NumReqs) =>
    /\ ReturnedFinding
    /\ finding.status = "compliant"
    /\ IF NumEvidence >= NumReqs
         THEN RatEq(finding.confidence, Ratio(1, 1))
         ELSE RatEq(finding.confidence, Ratio(NumEvidence, NumReqs))
    /\ finding.gaps = <<>>
    /\ finding.recommendation.text = "Control satisfied"

C9_NoDivisionByZero ==
  (Synthesized /\ NumReqs = 0) => ReturnedFinding

\* ------------------------------------------------------ claims: scanner
Scanned == calls >= 1

\* The literals of the security heuristic of the specification.
SecretLiterals == <<<<"p","a","s","s","w","o","r","d"," ","=">>, <<"a","p","i","_","k","e","y"," ","=">>, <<"s","e","c","r","e","t"," ","=">>>>

\* A source file the scanner reads (rglob("*.py")) holds such a literal.
HardcodedSecret ==
  \E f \in repo : EndsWith(f.name, <<".","p","y">>) /\ ContainsAny(SecretLiterals, f.content)

\* The security control of the first wave: CTRL-015-003, Security Scanning.
SecurityControl == "CTRL-015-003"

\* C10: if a scanned source file holds a hardcoded-secret literal, the
\* finding of the security control is non_compliant in the scan result,
\* whatever other evidence was collected for the control.
C10_SecretOverride ==
  (Scanned /\ HardcodedSecret) =>
    \A i \in DOMAIN findings_list :
      findings_list[i].control_id = SecurityControl =>
        findings_list[i].status = "non_compliant"

\* The control ids of the findings, in list order.
FindingControlIds == [i \in DOMAIN findings_list |-> findings_list[i].control_id]

\* The instance has run scan() exactly once since construction.
FirstScanDone == calls = 1 /\ ~scan_raised

\* C11: after scan() on a freshly constructed scanner, for any tree, the
\* findings list holds exactly one Finding for each of the ten first-wave
\* control ids, each of which resolves in the catalogue, and no Finding
\* for any other control.
C11_OneFindingPerControl ==
  /\ Len(FIRST_WAVE_CONTROLS) = 10
  /\ \A i \in DOMAIN FIRST_WAVE_CONTROLS :
       get_control_by_id(FIRST_WAVE_CONTROLS[i]) # NoControl
  /\ calls = 1 =>
       /\ ~scan_raised
       /\ Range(FindingControlIds) = Range(FIRST_WAVE_CONTROLS)
       /\ \A id \in Range(FIRST_WAVE_CONTROLS) :
            Cardinality({i \in DOMAIN findings_list :
                           findings_list[i].control_id = id}) = 1

\* A first scan of a tree with and of a tree without evidence has finished.
C11_Witness ==
  /\ FirstScanDone
  /\ Cardinality(repo) = 2
  /\ Len(findings_list) = 10
  /\ \E i, j \in DOMAIN findings_list :
       /\ findings_list[i].status = "non_compliant"
       /\ findings_list[j].status # "non_compliant"

\* ------------------------------------------ claims: compliance checker
Checked == compliance_result # [articles |-> <<>>]

\* The metadata check_compliance was called on.
CheckedMetadata ==
  IF parsed_metadata # <<>> THEN parsed_metadata ELSE raw_metadata

\* The text the elements are searched in.
CheckedText == _combine_text(CheckedMetadata, documents)

Articles == DOMAIN COMPLIANCE_REQUIREMENTS

RequiredElements(a) == COMPLIANCE_REQUIREMENTS[a].required_elements

\* The related terms the code lists for an element.
RelatedTermsOf(element) ==
  UNION {Range(related_terms[i].terms) :
           i \in {j \in DOMAIN related_terms : related_terms[j].element = element}}

\* The thresholds on found / required, in exact arithmetic.
ThresholdStatus(found, required) ==
  IF 10 * found >= 8 * required THEN "compliant"
  ELSE IF 10 * found >= 4 * required THEN "partially_compliant"
  ELSE "non_compliant"

One == FloatOfInt(1)

\* C12: for each of the 7 articles, compliance_ratio is the number of
\* required elements found divided by the number required, and status is
\* compliant from 0.8, partially_compliant from 0.4 and non_compliant
\* below; a text with every required phrase of an article gives 1.0 and
\* compliant, a text with none of them nor of their related terms gives
\* 0.0 and non_compliant.
C12_ArticleStatus ==
  Checked =>
    LET t == CheckedText
    IN  /\ Len(compliance_result.articles) = 7
        /\ \A a \in Articles :
             LET res == compliance_result.articles[a]
                 required == RequiredElements(a)
                 found == Len(res.found_elements)
             IN  /\ res.article_id = COMPLIANCE_REQUIREMENTS[a].article_id
                 /\ Range(res.found_elements) \subseteq Range(required)
                 /\ found = Cardinality(Range(res.found_elements))
                 /\ res.compliance_ratio = TrueDiv(found, Len(required))
                 /\ res.status = ThresholdStatus(found, Len(required))
                 /\ (\A i \in DOMAIN required : Contains(required[i], t)) =>
                      res.compliance_ratio = One /\ res.status = "compliant"
                 /\ (\A i \in DOMAIN required :
                       /\ ~Contains(required[i], t)
                       /\ \A s \in RelatedTermsOf(required[i]) : ~Contains(s, t)) =>
                      /\ res.compliance_ratio = FloatZero
                      /\ res.status = "non_compliant"

\* One check met both thresholds exactly and both ends: an article with 4
\* of 5 elements (compliant), one with 2 of 5 (partially compliant), one
\* with all and one with none.
C12_Witness ==
  /\ Checked
  /\ \E a, b, c, d \in Articles :
       /\ Len(compliance_result.articles[a].found_elements) = 4
       /\ Len(RequiredElements(a)) = 5
       /\ compliance_result.articles[a].status = "compliant"
       /\ Len(compliance_result.articles[b].found_elements) = 2
       /\ Len(RequiredElements(b)) = 5
       /\ compliance_result.articles[b].status = "partially_compliant"
       /\ compliance_result.articles[c].compliance_ratio = One
       /\ compliance_result.articles[d].compliance_ratio = FloatZero
       /\ compliance_result.articles[d].status = "non_compliant"

\* Every str of the dict, nested ones included, is empty.
RECURSIVE AllStringsEmpty(_)
AllStringsEmpty(d) ==
  \A i \in DOMAIN d :
    IF d[i].value.type = "str" THEN d[i].value.text = <<>>
    ELSE AllStringsEmpty(d[i].value.items)

\* C13: for a metadata record all of whose string fields are empty, those
\* of the nested documentation record of parse_metadata included, and no
\* documents, check_compliance returns ratio 0.0 and non_compliant for
\* each of the 7 articles.
C13_EmptyMetadata ==
  (Checked /\ parsed_metadata # <<>> /\ AllStringsEmpty(parsed_metadata)
     /\ documents = PyNone) =>
    /\ Len(compliance_result.articles) = 7
    /\ \A a \in Articles :
         /\ compliance_result.articles[a].compliance_ratio = FloatZero
         /\ compliance_result.articles[a].status = "non_compliant"

\* Exact rational arithmetic on Ratio(n, d).
RatAdd(x, y) == Ratio(x.num * y.den + y.num * x.den, x.den * y.den)

RECURSIVE RatSum(_)
RatSum(rs) == IF rs = <<>> THEN Ratio(0, 1) ELSE RatAdd(Head(rs), RatSum(Tail(rs)))

\* The mean of the 7 ratios found / required.
ExactMean ==
  LET rs == [a \in Articles |->
               Ratio(Len(compliance_result.articles[a].found_elements),
                     Len(RequiredElements(a)))]
      sum == RatSum(rs)
  IN  Ratio(sum.num, sum.den * Len(rs))

BandGrade(mean) ==
  IF RatLeq(Ratio(9, 10), mean) THEN "A"
  ELSE IF RatLeq(Ratio(8, 10), mean) THEN "B"
  ELSE IF RatLeq(Ratio(6, 10), mean) THEN "C"
  ELSE IF RatLeq(Ratio(4, 10), mean) THEN "D"
  ELSE "F"

ArticlesWithStatus(status) ==
  Cardinality({a \in Articles : compliance_result.articles[a].status = status})

\* C14: overall_score is computed over exactly the 7 articles: the grade
\* is A from a mean ratio of 0.9, B from 0.8, C from 0.6, D from 0.4 and F
\* below, the three counts are the numbers of articles with each status
\* and add up to total_articles = 7.
C14_OverallScore ==
  Checked =>
    LET score == compliance_result.overall_score
    IN  /\ score.total_articles = 7
        /\ score.compliant_articles = ArticlesWithStatus("compliant")
        /\ score.partially_compliant_articles =
             ArticlesWithStatus("partially_compliant")
        /\ score.non_compliant_articles = ArticlesWithStatus("non_compliant")
        /\ score.compliant_articles + score.partially_compliant_articles
             + score.non_compliant_articles = score.total_articles
        /\ score.grade = BandGrade(ExactMean)

\* ------------------------------------------ claims: coverage aggregator
Aggregated == coverage # <<>>

\* Findings of the list with the status, counted one by one.
RECURSIVE CountOf(_, _)
CountOf(fs, status) ==
  IF fs = <<>> THEN 0
  ELSE (IF Head(fs).status = status THEN 1 ELSE 0) + CountOf(Tail(fs), status)

Abs(x) == IF x >= 0 THEN x ELSE -x

\* The one-decimal values nearest to (compliant + partial/2) / total * 100
\* in exact arithmetic, in tenths of a per cent: one value, or the two
\* neighbours when the percentage lies half way between them.
NearestTenths(compliant, partial, total) ==
  LET n == (2 * compliant + partial) * 500
      q == n \div total
  IN  {h \in {q, q + 1} : 2 * Abs(n - h * total) <= total}

\* The floats of those one-decimal values.
RoundedPct(compliant, partial, total) ==
  {TrueDiv(h, 10) : h \in NearestTenths(compliant, partial, total)}

\* C15: for every list of findings, coverage_percentage is
\* (compliant + 0.5 * partial) / max(1, total) * 100 rounded to one
\* decimal, with total the length of the list and compliant and partial
\* the numbers of findings with those statuses; it lies between 0 and 100,
\* and the empty list gives total 0 and coverage 0.0.
C15_CoveragePercentage ==
  \A k \in DOMAIN coverage :
    LET fs == coverage[k].findings
        st == coverage[k].stats
        total == Len(fs)
        compliant == CountOf(fs, "compliant")
        partial == CountOf(fs, "partial")
    IN  /\ st.total_controls = total
        /\ st.compliant = compliant
        /\ st.partial = partial
        /\ st.non_compliant = CountOf(fs, "non_compliant")
        /\ st.coverage_percentage \in RoundedPct(compliant, partial, Max(1, total))
        /\ NearestTenths(compliant, partial, Max(1, total)) \subseteq 0..1000
        /\ FloatGeq(st.coverage_percentage, FloatZero)
        /\ FloatGeq(FloatOfInt(100), st.coverage_percentage)
        /\ fs = <<>> => st.total_controls = 0 /\ st.coverage_percentage = FloatZero

\* The aggregate of the eight findings at 6.25 per cent, half way between
\* two one-decimal values, has been computed.
C15_Witness ==
  /\ Aggregated
  /\ coverage[1].findings = EightFindings
  /\ coverage[1].stats.partial = 1
  /\ coverage[1].stats.coverage_percentage \in {TrueDiv(62, 10), TrueDiv(63, 10)}

ArticlesOf(fs) == {fs[i].article : i \in DOMAIN fs}

FindingsOfArticle(fs, article) == SelectSeq(fs, LAMBDA f : f.article = article)

\* C16: the keys of article_coverage are exactly the articles of the input
\* findings, each once (an article without findings is absent), and each
\* value is the half-credit percentage of that article's findings alone,
\* rounded to one decimal; an article whose findings are all
\* non_compliant is present with 0.0.
C16_ArticleCoverage ==
  \A k \in DOMAIN coverage :
    LET fs == coverage[k].findings
        ac == coverage[k].stats.article_coverage
    IN  /\ {ac[i].key : i \in DOMAIN ac} = ArticlesOf(fs)
        /\ Len(ac) = Cardinality(ArticlesOf(fs))
        /\ \A i \in DOMAIN ac :
             LET own == FindingsOfArticle(fs, ac[i].key)
             IN  /\ ac[i].value \in RoundedPct(CountOf(own, "compliant"),
                                               CountOf(own, "partial"), Len(own))
                 /\ CountOf(own, "non_compliant") = Len(own) =>
                      ac[i].value = FloatZero

\* An aggregate over two articles, one with a partial finding and one with
\* only non_compliant findings, reported at 0.0; no other article is a key.
C16_Witness ==
  /\ Aggregated
  /\ LET fs == coverage[1].findings
         ac == coverage[1].stats.article_coverage
     IN  /\ ArticlesOf(fs) = {"Article 11", "Article 12"}
         /\ Len(ac) = 2
         /\ \E i, j \in DOMAIN ac :
              /\ ac[i].value = FloatZero
              /\ CountOf(FindingsOfArticle(fs, ac[i].key), "non_compliant") >= 1
              /\ ac[j].value = TrueDiv(50, 1)
              /\ CountOf(FindingsOfArticle(fs, ac[j].key), "partial") = 1

\* The dict as the map it is: key to value.
AsMap(entries) ==
  [key \in {entries[i].key : i \in DOMAIN entries} |->
     entries[CHOOSE i \in DOMAIN entries : entries[i].key = key].value]

SameStats(s, t) ==
  /\ [s EXCEPT !.article_coverage = <<>>] = [t EXCEPT !.article_coverage = <<>>]
  /\ AsMap(s.article_coverage) = AsMap(t.article_coverage)

IsReordering(fs, gs) ==
  /\ Len(fs) = Len(gs)
  /\ \A x \in Range(fs) \cup Range(gs) :
       Cardinality({i \in DOMAIN fs : fs[i] = x})
         = Cardinality({i \in DOMAIN gs : gs[i] = x})

\* The calls made so far agree: on reorderings of one list the counts, the
\* percentage and the article map are the same, on the same list the
\* CoverageStats are identical.
CallsAgree ==
  \A i, j \in DOMAIN coverage :
    /\ IsReordering(coverage[i].findings, coverage[j].findings)
    /\ SameStats(coverage[i].stats, coverage[j].stats)
    /\ coverage[i].findings = coverage[j].findings =>
         coverage[i].stats = coverage[j].stats

\* C17: calculate_coverage depends only on the multiset of the findings:
\* every reordering of a list gives the same counts, coverage_percentage
\* and article_coverage map, two calls on the same list give identical
\* results, and a call leaves the findings unchanged.
C17_OrderIndependent ==
  /\ []CallsAgree
  /\ [][Len(coverage') = Len(coverage) + 1 => findings' = findings]_vars

\* Two calls on different orders of one list, whose articles were met in
\* different orders (a partial and a non_compliant finding of two articles,
\* 25 per cent).
C17_Witness ==
  /\ Len(coverage) = 2
  /\ coverage[1].findings # coverage[2].findings
  /\ coverage[1].stats.article_coverage # coverage[2].stats.article_coverage
  /\ coverage[1].stats.coverage_percentage = TrueDiv(250, 10)


\* ------------------------------------------- claims: scanner traversal
\* Directories the traversal is to leave out.
IgnoredDirs == {<<".","g","i","t">>, <<"n","o","d","e","_","m","o","d","u","l","e","s">>, <<"_","_","p","y","c","a","c","h","e","_","_">>, <<".","v","e","n","v">>, <<"v","e","n","v">>}

\* The path, as its components, runs through the directory.
LiesUnder(path, dirname) ==
  \E k \in 1..(Len(path) - 1) : path[k] = dirname

\* The Evidence the given call of scan() added.
EvidenceOfCall(call) ==
  SelectSeq(evidence_list, LAMBDA e : e.id[1] = call)

\* C18: for every tree, after scan() no Evidence has a source path
\* inside a directory named .git, node_modules, __pycache__, .venv or
\* venv; the recursive searches for logging configuration and audit-trail
\* code do not descend into them.
C18_IgnoredDirectories ==
  \A i \in DOMAIN evidence_list :
    \A dirname \in IgnoredDirs :
      ~LiesUnder(evidence_list[i].source.path, dirname)

\* The tree holds README.md and .git/config and nothing else.
ReadmeAndGitConfigOnly ==
  {RelPath(f) : f \in repo} = {<<<<"R","E","A","D","M","E",".","m","d">>>>, <<<<".","g","i","t">>, <<"c","o","n","f","i","g">>>>}

\* C19: every scan of a tree holding only README.md and .git/config adds
\* exactly one file Evidence for CTRL-011-001, with source path README.md
\* and confidence 1.0, and no Evidence with a source path under .git.
C19_ReadmeAndGitConfig ==
  ReadmeAndGitConfigOnly =>
    \A call \in 1..calls :
      LET added == EvidenceOfCall(call)
          readme == SelectSeq(added, LAMBDA e : e.control_id = "CTRL-011-001")
      IN  /\ ~scan_raised
          /\ Len(readme) = 1
          /\ readme[1].source.type = "file"
          /\ readme[1].source.path = <<<<"R","E","A","D","M","E",".","m","d">>>>
          /\ RatEq(readme[1].confidence_score, Ratio(1, 1))
          /\ \A i \in DOMAIN added : ~LiesUnder(added[i].source.path, <<".","g","i","t">>)

\* That tree has been scanned, and the scan added Evidence.
C19_Witness ==
  /\ ReadmeAndGitConfigOnly
  /\ calls >= 1
  /\ \E i \in DOMAIN evidence_list :
       /\ evidence_list[i].control_id = "CTRL-011-001"
       /\ evidence_list[i].source.path = <<<<"R","E","A","D","M","E",".","m","d">>>>

\* What a call selected: the source paths per control.
SelectedPaths(call) ==
  LET added == EvidenceOfCall(call)
  IN  {<<added[i].control_id, added[i].source.path>> : i \in DOMAIN added}

\* The findings the given call appended, one per first-wave control,
\* without the uuids of the call's Evidence.
FindingsOfCall(call) ==
  LET n == Len(FIRST_WAVE_CONTROLS)
      own == SubSeq(findings_list, (call - 1) * n + 1, call * n)
  IN  [i \in DOMAIN own |-> [own[i] EXCEPT !.evidence_ids = <<>>]]

\* C20: two scans of one tree select the same Evidence whatever the order
\* in which the file system lists the entries of a directory: the source
\* paths per control, the findings and the coverage of the two scans are
\* the same.
C20_EnumerationOrder ==
  (calls = 2 /\ ~scan_raised) =>
    /\ SelectedPaths(1) = SelectedPaths(2)
    /\ FindingsOfCall(1) = FindingsOfCall(2)
    /\ calculate_coverage(FindingsOfCall(1)) = calculate_coverage(FindingsOfCall(2))

\* -------------------------------------------- claims: scanner results
\* No collector matches a file of the tree, in whatever order it is listed.
NothingMatches ==
  \A listing \in DirectoryOrders(repo) :
    \A i \in DOMAIN FIRST_WAVE_CONTROLS :
      Collect(FIRST_WAVE_CONTROLS[i], listing) = <<>>

\* A finding as calculate_coverage reads it.
StatusAndArticle(fs) ==
  [i \in DOMAIN fs |-> [control_id |-> fs[i].control_id,
                        article |-> fs[i].article, status |-> fs[i].status]]

\* C21: scanning an empty tree, or one in which no file matches a
\* collector, raises nothing: the evidence list is empty, the ten findings
\* are non_compliant with confidence 0.0 and evidence_count 0, and
\* calculate_coverage on them gives 0.0.
C21_EmptyTree ==
  (NothingMatches /\ calls = 1) =>
    /\ ~scan_raised
    /\ evidence_list = <<>>
    /\ Len(findings_list) = 10
    /\ \A i \in DOMAIN findings_list :
         /\ findings_list[i].status = "non_compliant"
         /\ RatEq(findings_list[i].confidence, Ratio(0, 1))
         /\ findings_list[i].evidence_count = 0
    /\ calculate_coverage(StatusAndArticle(findings_list)).coverage_percentage
         = FloatZero

\* A tree with files, none of which matches (app.py and .git/config), has
\* been scanned.
C21_Witness ==
  /\ NothingMatches
  /\ Cardinality(repo) = 2
  /\ calls = 1
  /\ Len(findings_list) = 10

\* The code Evidence of a control that the given call added.
CodeEvidence(call, control_id) ==
  SelectSeq(EvidenceOfCall(call),
            LAMBDA e : e.control_id = control_id /\ e.type = "code")

\* C24: for the two controls checked by a content-pattern matcher, the
\* logging-setup search (CTRL-012-001) and the audit-trail search
\* (CTRL-012-002), a scan emits at most one code Evidence, however many
\* source files match.
C24_FirstHitOnly ==
  \A call \in 1..calls :
    \A control_id \in {"CTRL-012-001", "CTRL-012-002"} :
      Len(CodeEvidence(call, control_id)) <= 1

\* The Evidence of a control that the given call added.
EvidenceFor(call, control_id) ==
  SelectSeq(EvidenceOfCall(call), LAMBDA e : e.control_id = control_id)

\* The caps per control, in the order of FIRST_WAVE_CONTROLS: README,
\* diagrams, CHANGELOG, logging, audit trail, CI, dependencies, system
\* documents, requirements, version.
EvidenceCaps == <<4, 5, 4, 3, 3, 5, 7, 3, 3, 3>>

RECURSIVE SumSeq(_)
SumSeq(q) == IF q = <<>> THEN 0 ELSE Head(q) + SumSeq(Tail(q))

\* C25: for every tree the Evidence a scan returns per control is bounded
\* by the control's cap (40 in all per scan); a list cut at the cap raises
\* no error and the Finding is produced from the cut list.
C25_EvidenceCaps ==
  /\ SumSeq(EvidenceCaps) = 40
  /\ ~scan_raised
  /\ Len(findings_list) = Len(FIRST_WAVE_CONTROLS) * calls
  /\ \A call \in 1..calls :
       /\ Len(EvidenceOfCall(call)) <= 40
       /\ \A i \in DOMAIN FIRST_WAVE_CONTROLS :
            LET kept == EvidenceFor(call, FIRST_WAVE_CONTROLS[i])
                f == findings_list[(call - 1) * Len(FIRST_WAVE_CONTROLS) + i]
            IN  /\ Len(kept) <= EvidenceCaps[i]
                /\ f.control_id = FIRST_WAVE_CONTROLS[i]
                /\ f.evidence_count = Len(kept)
                /\ f.evidence_ids = [k \in DOMAIN kept |-> kept[k].id]

\* The tree with six diagrams has been scanned: five are kept and the
\* finding counts five.
C25_Witness ==
  /\ repo = CapTrees.diagrams
  /\ calls = 1
  /\ Len(EvidenceFor(1, "CTRL-011-002")) = 5
  /\ findings_list[2].evidence_count = 5
  /\ findings_list[2].status = "compliant"

\* C30: scan() appends to the lists of the instance without clearing
\* them: after k calls the findings list holds 10 * k Findings, k per
\* first-wave control, all under the scan_id of the instance, in first-wave
\* order within each call, and the evidence list holds the Evidence of
\* every call so far.
C30_Accumulates ==
  ~scan_raised =>
    /\ Len(findings_list) = 10 * calls
    /\ \A call \in 1..calls :
         \A i \in DOMAIN FIRST_WAVE_CONTROLS :
           /\ findings_list[(call - 1) * 10 + i].control_id = FIRST_WAVE_CONTROLS[i]
           /\ findings_list[(call - 1) * 10 + i].scan_id = scan_id
           /\ findings_list[(call - 1) * 10 + i].evidence_ids =
                [k \in DOMAIN EvidenceFor(call, FIRST_WAVE_CONTROLS[i]) |->
                   EvidenceFor(call, FIRST_WAVE_CONTROLS[i])[k].id]
    /\ \A i \in DOMAIN FIRST_WAVE_CONTROLS :
         Cardinality({k \in DOMAIN findings_list :
                        findings_list[k].control_id = FIRST_WAVE_CONTROLS[i]}) = calls
    /\ \A k \in DOMAIN evidence_list :
         /\ evidence_list[k].id[1] \in 1..calls
         /\ evidence_list[k].scan_id = scan_id
         /\ \A j \in DOMAIN evidence_list :
              j < k => evidence_list[j].id[1] <= evidence_list[k].id[1]

\* An instance has scanned a tree with evidence twice: twenty findings and
\* the Evidence of both calls are in its lists.
C30_Witness ==
  /\ calls = 2
  /\ ~scan_raised
  /\ Len(findings_list) = 20
  /\ EvidenceOfCall(1) # <<>>
  /\ EvidenceOfCall(2) # <<>>

\* ------------------------------------------- claims: finding synthesis
\* C28: for every control of the catalogue (each has at least one
\* requirement) and every evidence list, the confidence of the Finding
\* lies in [0, 1] and follows its status: non_compliant has confidence 0
\* and evidence_count 0, partial has 0 < confidence < 0.5, compliant has
\* confidence >= 0.5; gaps is empty exactly when the status is compliant.
C28_ConfidenceAndStatus ==
  /\ \A i \in DOMAIN ALL_CONTROLS : Len(ALL_CONTROLS[i].evidence_requirements) >= 1
  /\ (control \in Range(ALL_CONTROLS) /\ finding # NoFinding) =>
       /\ "status" \in DOMAIN finding
       /\ "status" \in DOMAIN finding =>
            LET conf == finding.confidence
                half == Ratio(1, 2)
            IN  /\ RatLeq(Ratio(0, 1), conf) /\ RatLeq(conf, Ratio(1, 1))
                /\ finding.status \in {"non_compliant", "partial", "compliant"}
                /\ finding.status = "non_compliant" =>
                     RatEq(conf, Ratio(0, 1)) /\ finding.evidence_count = 0
                /\ finding.status = "partial" =>
                     /\ ~RatLeq(conf, Ratio(0, 1))
                     /\ ~RatLeq(half, conf)
                /\ finding.status = "compliant" => RatLeq(half, conf)
                /\ (finding.gaps = <<>>) <=> (finding.status = "compliant")

\* A catalogue control with four requirements met by exactly two Evidence
\* items: compliant at confidence 0.5.
C28_Witness ==
  /\ control \in Range(ALL_CONTROLS)
  /\ Len(control.evidence_requirements) = 4
  /\ Len(evidence_items) = 2
  /\ "status" \in DOMAIN finding
  /\ "status" \in DOMAIN finding =>
       finding.status = "compliant" /\ RatEq(finding.confidence, Ratio(1, 2))

\* ------------------------------------- claims: overlapping keyword lists
\* The keywords of the high-risk or limited-risk lists that are prohibited
\* keywords as well.
SharedWithProhibited ==
  {<<"e","m","o","t","i","o","n"," ","r","e","c","o","g","n","i","t","i","o","n">>, <<"b","i","o","m","e","t","r","i","c"," ","c","a","t","e","g","o","r","i","z","a","t","i","o","n">>, <<"l","a","w"," ","e","n","f","o","r","c","e","m","e","n","t">>}

\* C29: a text containing "emotion recognition", "biometric
\* categorization" or "law enforcement" is classified prohibited; a high
\* or limited result never lists a keyword of the prohibited list, a
\* limited result lists only "chatbot" and "deepfake", and a high result
\* never lists "law enforcement".
C29_NoProhibitedTermBelow ==
  LET t == ClaimText
  IN  Classified =>
        /\ "risk_level" \in DOMAIN risk
        /\ SharedWithProhibited \subseteq Range(PROHIBITED_KEYWORDS)
        /\ (\E kw \in SharedWithProhibited : Contains(kw, t)) =>
             risk.risk_level = "prohibited"
        /\ risk.risk_level \in {"high", "limited"} =>
             Range(risk.matched_terms) \cap Range(PROHIBITED_KEYWORDS) = {}
        /\ risk.risk_level = "limited" =>
             /\ risk.matched_terms # <<>>
             /\ Range(risk.matched_terms) \subseteq {<<"c","h","a","t","b","o","t">>, <<"d","e","e","p","f","a","k","e">>}
        /\ risk.risk_level = "high" =>
             <<"l","a","w"," ","e","n","f","o","r","c","e","m","e","n","t">> \notin Range(risk.matched_terms)

\* A text with "chatbot" and "emotion recognition" was classified
\* prohibited.
C29_Witness ==
  LET t == ClaimText
  IN  /\ Classified
      /\ Contains(<<"c","h","a","t","b","o","t">>, t)
      /\ Contains(<<"e","m","o","t","i","o","n"," ","r","e","c","o","g","n","i","t","i","o","n">>, t)
      /\ "risk_level" \in DOMAIN risk
      /\ risk.risk_level = "prohibited"
      /\ risk.matched_terms = <<<<"e","m","o","t","i","o","n"," ","r","e","c","o","g","n","i","t","i","o","n">>>>

\* ----------------------------------------- claims: element search
\* The element's phrase, or a related term registered for exactly that
\* phrase, occurs in the text.
PhraseOrSynonymIn(element, t) ==
  \/ Contains(element, t)
  \/ \E term \in RelatedTermsOf(element) : Contains(term, t)

\* C26: a required element is found if and only if its phrase or one of
\* the related terms registered for exactly that phrase is a substring of
\* the combined lower-cased text; an element without related terms is
\* found by its phrase only; found_elements and missing_elements
\* partition the required elements of the article.
C26_ElementSearch ==
  Checked =>
    LET t == CheckedText
    IN  \A a \in Articles :
          LET res == compliance_result.articles[a]
              required == RequiredElements(a)
          IN  /\ res.found_elements =
                   SelectSeq(required, LAMBDA e : PhraseOrSynonymIn(e, t))
              /\ res.missing_elements =
                   SelectSeq(required, LAMBDA e : ~PhraseOrSynonymIn(e, t))
              /\ Range(res.found_elements) \cap Range(res.missing_elements) = {}
              /\ Range(res.found_elements) \cup Range(res.missing_elements)
                   = Range(required)
              /\ Len(res.found_elements) + Len(res.missing_elements) = Len(required)
              /\ \A i \in DOMAIN required :
                   RelatedTermsOf(required[i]) = {} =>
                     (required[i] \in Range(res.found_elements)
                        <=> Contains(required[i], t))

\* A check in which one element was found by a related term alone, while
\* an element of the same article without related terms is missing.
C26_Witness ==
  /\ Checked
  /\ LET t == CheckedText
     IN  \E a \in Articles :
           LET res == compliance_result.articles[a]
           IN  /\ \E e \in Range(res.found_elements) :
                    ~Contains(e, t) /\ RelatedTermsOf(e) # {}
               /\ \E e \in Range(res.missing_elements) : RelatedTermsOf(e) = {}

\* ------------------------------------------------ claims: scan endpoints
ZipSuffix == <<".","z","i","p">>

\* C22: a repository-scan request whose uploaded file name does not end in
\* .zip is answered with HTTP 400, and then no scanner has run and the
\* evidence_scans, evidence and findings collections hold nothing.
C22_RejectNotZip ==
  (post_pc = "done" /\ ~EndsWith(upload.filename, ZipSuffix))
    => /\ post_status = 400
       /\ scanner_runs = 0
       /\ db = EmptyDb

\* A reader that was answered 200 saw one finding per checked control.
CompleteRead ==
  get_response.status = 200
    => get_response.checked = get_response.scan.metadata.controls_checked

\* A scan request that ended in 500 left nothing in the collections.
NoLeftovers ==
  (post_pc = "done" /\ post_status = 500) => db = EmptyDb

\* C23: no partial scan state is visible: a reader of the scan id gets 404
\* or the scan with its complete finding set, never the scan record with
\* only some of its findings stored, and a scan that fails midway leaves no
\* scan, evidence or finding record.
C23_NoPartialState == CompleteRead /\ NoLeftovers

\* ------------------------------------------------ claims: analyzer tasks
StoredStatuses == {"pass", "warn", "fail", "error"}

\* A task that returned stored one Evidence for its rule, with a final
\* status, and error after a timeout of the tool.
OneFinalEvidence ==
  worker_pc = "returned"
    => /\ Len(stored) = 1
       /\ stored[1].rule = Rules[task.name]
       /\ stored[1].status \in StoredStatuses
       /\ analysis.kind = "timeout" => stored[1].status = "error"

\* C27: every invocation of an analyzer task terminates, and when saving
\* succeeds it has stored exactly one Evidence for its rule whose status is
\* pass, warn, fail or error, never pending; after the tool's 60-second
\* timeout the stored status is error.
C27_TerminatesWithFinalStatus ==
  /\ []OneFinalEvidence
  /\ (worker_pc = "queued") ~> (worker_pc \in {"returned", "failed"})

C27_Witness ==
  /\ worker_pc = "returned"
  /\ task.name = "run_pip_audit"
  /\ analysis.kind = "timeout"
  /\ Len(stored) = 1
  /\ stored[1].status = "error"

====
